---- MODULE Spec2Model ----
(***************************************************************************)
(* mystquarto: the forward scanner (scanner.py), the forward block and      *)
(* inline transforms (transforms/myst_to_quarto.py) and the reverse         *)
(* line-oriented converter (transforms/quarto_to_myst.py).                  *)
(*                                                                          *)
(* A text line is a sequence of tokens.  A token is one punctuation or      *)
(* whitespace character, or a maximal run of word characters (\w+) kept as  *)
(* one atom ("note", "python", "fig").  Every regular expression of the     *)
(* source is an operator over such sequences; every f-string is a           *)
(* concatenation.  A document is a sequence of lines: text.split("\n") of   *)
(* the source, which never yields an empty list.                            *)
(***************************************************************************)
EXTENDS Integers, Sequences, FiniteSets, TLC

VARIABLES
    mode,                   \* which entry point runs: "forward", "roundtrip", "reverse"
    pc,                     \* position of the running function
    lines,                  \* Scanner.scan: text.split("\n")
    i,                      \* Scanner.scan: line cursor
    stack,                  \* Scanner.stack
    in_options,             \* Scanner.scan local
    in_regular_code_fence,  \* Scanner.scan local
    regular_fence_char,     \* Scanner.scan local
    regular_fence_count,    \* Scanner.scan local
    regular_fence_indent,   \* Scanner.scan local
    output_lines,           \* Scanner.scan: output_lines
    input_lines,            \* convert_quarto_to_myst: text.split("\n")
    qi,                     \* convert_quarto_to_myst: line cursor i
    q_output_lines,         \* convert_quarto_to_myst: output_lines
    table_lines_buffer,     \* convert_quarto_to_myst local
    in_table,               \* convert_quarto_to_myst local
    blk,                    \* convert_quarto_to_myst: the inner scan in progress
    warnings,               \* WarningCollector.warnings
    errors,                 \* WarningCollector.errors
    strict,                 \* WarningCollector.strict
    reported,               \* every message handed to warn or error, in call order
    has_errors_ret,         \* what the last has_errors() returned ("none": not called)
    fs,                     \* the files on disk: directory, name and content of each
    dirs,                   \* the directories on disk
    call,                   \* the arguments of the last convert_file / convert_directory
    ncalls,                 \* the calls made so far
    results,                \* what the last call returned
    returned                \* every Scanner.scan call that returned: its text and output

vars == <<mode, pc, lines, i, stack, in_options, in_regular_code_fence,
          regular_fence_char, regular_fence_count, regular_fence_indent,
          output_lines, input_lines, qi, q_output_lines, table_lines_buffer,
          in_table, blk, warnings, errors, strict, reported, has_errors_ret,
          fs, dirs, call, ncalls, results, returned>>

wcVars == <<warnings, errors, strict, reported, has_errors_ret>>

\* what the converters never touch
fsVars == <<fs, dirs, call, ncalls, results>>

\* the scans that have returned
histVars == <<returned>>

sideVars == <<wcVars, fsVars, histVars>>

fwdVars == <<lines, i, stack, in_options, in_regular_code_fence,
             regular_fence_char, regular_fence_count, regular_fence_indent,
             output_lines>>

revVars == <<input_lines, qi, q_output_lines, table_lines_buffer, in_table, blk>>

----------------------------------------------------------------------------
(* Tokens and Python string primitives.                                     *)

SP == " "
TAB == "<tab>"  \* the tab character
BT == "<bt>"   \* the backtick character
CO == ":"
TI == "~"
QT == "<dq>"   \* the double-quote character

Whitespace == {SP, TAB}

Punct == Whitespace \cup {BT, CO, TI, QT, "{", "}", "[", "]", "(", ")", "<", ">",
                          "!", "#", "$", "|", "@", ".", ",", ";", "-", "=", "%",
                          "'", "/", "+", "^", "*", "?"}

\* \w+ : a token that is a run of word characters
IsWord(t) == t \notin Punct

\* [\w-]
IsWordOrHyphen(t) == IsWord(t) \/ t = "-"

Rep(c, n) == [k \in 1..n |-> c]

Tail2(s, k) == SubSeq(s, k, Len(s))

\* The recursive operators bind their arguments with a set constructor
\* (CHOOSE out_ \in { body : s \in {s0} } : TRUE), so that an argument is
\* evaluated once however often the body refers to it.

\* number of leading tokens of s that satisfy membership in S
RECURSIVE LeadIn(_, _)
LeadIn(s0, S0) ==
    CHOOSE out_ \in {
       (IF s = <<>> \/ Head(s) \notin S THEN 0 ELSE 1 + LeadIn(Tail(s), S))
        : s \in {s0}, S \in {S0} } : TRUE

RECURSIVE TrailIn(_, _)
TrailIn(s0, S0) ==
    CHOOSE out_ \in {
       (IF s = <<>> \/ s[Len(s)] \notin S THEN 0
        ELSE 1 + TrailIn(SubSeq(s, 1, Len(s) - 1), S))
        : s \in {s0}, S \in {S0} } : TRUE

\* str.lstrip(chars), str.rstrip(chars), str.strip(chars)
lstripSet(s, S) == Tail2(s, LeadIn(s, S) + 1)
rstripSet(s, S) == SubSeq(s, 1, Len(s) - TrailIn(s, S))
stripSet(s, S) == rstripSet(lstripSet(s, S), S)

lstrip(s) == lstripSet(s, Whitespace)
strip(s) == stripSet(s, Whitespace)

\* number of leading tokens of s that are word-or-hyphen tokens
RECURSIVE LeadWordHyphen(_)
LeadWordHyphen(s0) ==
    CHOOSE out_ \in {
       (IF s = <<>> \/ ~IsWordOrHyphen(Head(s)) THEN 0 ELSE 1 + LeadWordHyphen(Tail(s)))
        : s \in {s0} } : TRUE

RECURSIVE LeadWord(_)
LeadWord(s0) ==
    CHOOSE out_ \in {
       (IF s = <<>> \/ ~IsWord(Head(s)) THEN 0 ELSE 1 + LeadWord(Tail(s)))
        : s \in {s0} } : TRUE

\* s.startswith(p)
StartsWith(s, p) == Len(s) >= Len(p) /\ SubSeq(s, 1, Len(p)) = p

\* position of the first token c in s at or after k, 0 when there is none
RECURSIVE FindFrom(_, _, _)
FindFrom(s0, c0, k0) ==
    CHOOSE out_ \in {
       (IF k > Len(s) THEN 0 ELSE IF s[k] = c THEN k ELSE FindFrom(s, c, k + 1))
        : s \in {s0}, c \in {c0}, k \in {k0} } : TRUE

\* str.split(sep) for a one-character separator
RECURSIVE Split(_, _)
Split(s0, sep0) ==
    CHOOSE out_ \in {
       (LET p == FindFrom(s, sep, 1)
        IN  IF p = 0 THEN <<s>>
            ELSE <<SubSeq(s, 1, p - 1)>> \o Split(Tail2(s, p + 1), sep))
        : s \in {s0}, sep \in {sep0} } : TRUE

\* sep.join(parts)
RECURSIVE Join(_, _)
Join(parts0, sep0) ==
    CHOOSE out_ \in {
       (IF parts = <<>> THEN <<>>
        ELSE IF Len(parts) = 1 THEN parts[1]
        ELSE parts[1] \o sep \o Join(Tail(parts), sep))
        : parts \in {parts0}, sep \in {sep0} } : TRUE

\* concatenation of a sequence of sequences
RECURSIVE Flatten(_)
Flatten(ss0) ==
    CHOOSE out_ \in {
       (IF ss = <<>> THEN <<>> ELSE Head(ss) \o Flatten(Tail(ss)))
        : ss \in {ss0} } : TRUE

\* [f(x) for x in s if p(x)] is written with SelectSeq and a function constructor
MapStrip(ss) == [k \in 1..Len(ss) |-> strip(ss[k])]

NonEmpty(s) == s # <<>>

\* "\n".join(out).split("\n"): an empty list of lines comes back as one empty line
SplitJoin(ls) == IF ls = <<>> THEN << <<>> >> ELSE ls

----------------------------------------------------------------------------
(* scanner.py: the fence and option patterns.                               *)

NoMatch == [ok |-> FALSE]

\* ^(\s*)(F{3,})\{(\w[\w-]*)\}\s*(.*)$ for the fence character F
OPEN_RE(line, F) ==
    LET ws == LeadIn(line, Whitespace)
        r1 == Tail2(line, ws + 1)
        n  == LeadIn(r1, {F})
        r2 == Tail2(r1, n + 1)
        r3 == Tail2(r2, 2)
        w  == LeadWordHyphen(r3)
        r4 == Tail2(r3, w + 1)
    IN  IF /\ n >= 3
           /\ r2 # <<>> /\ Head(r2) = "{"
           /\ r3 # <<>> /\ IsWord(Head(r3))
           /\ r4 # <<>> /\ Head(r4) = "}"
        THEN [ok |-> TRUE, g1 |-> SubSeq(line, 1, ws), g2 |-> Rep(F, n),
              g3 |-> SubSeq(r3, 1, w), g4 |-> lstrip(Tail(r4))]
        ELSE NoMatch

BACKTICK_OPEN_RE(line) == OPEN_RE(line, BT)

COLON_OPEN_RE(line) == OPEN_RE(line, CO)

\* ^:(\w[\w-]*):\s*(.*)$
OPTION_RE(s) ==
    LET r1 == Tail(s)
        w  == LeadWordHyphen(r1)
        r2 == Tail2(r1, w + 1)
    IN  IF /\ s # <<>> /\ Head(s) = CO
           /\ r1 # <<>> /\ IsWord(Head(r1))
           /\ r2 # <<>> /\ Head(r2) = CO
        THEN [ok |-> TRUE, g1 |-> SubSeq(r1, 1, w), g2 |-> lstrip(Tail(r2))]
        ELSE NoMatch

\* ^(\s*)(`{3,}|~{3,})(\w*)\s*$
REGULAR_FENCE_RE(line) ==
    LET ws == LeadIn(line, Whitespace)
        r1 == Tail2(line, ws + 1)
        c  == IF r1 = <<>> THEN SP ELSE Head(r1)
        n  == LeadIn(r1, {c})
        r2 == Tail2(r1, n + 1)
        w  == LeadWord(r2)
        r3 == Tail2(r2, w + 1)
    IN  IF c \in {BT, TI} /\ n >= 3 /\ LeadIn(r3, Whitespace) = Len(r3)
        THEN [ok |-> TRUE, g1 |-> SubSeq(line, 1, ws), g2 |-> Rep(c, n),
              g3 |-> SubSeq(r2, 1, w)]
        ELSE NoMatch

\* ^(\s*)(C{3,})\s*$ for the fence character C of the open regular fence
REGULAR_CLOSE_RE(line, C) ==
    LET ws == LeadIn(line, Whitespace)
        r1 == Tail2(line, ws + 1)
        n  == LeadIn(r1, {C})
        r2 == Tail2(r1, n + 1)
    IN  IF n >= 3 /\ LeadIn(r2, Whitespace) = Len(r2)
        THEN [ok |-> TRUE, g1 |-> SubSeq(line, 1, ws), g2 |-> Rep(C, n)]
        ELSE NoMatch

\* _is_close_fence without the indentation test of line 235
is_close_fence_any_indent(stripped, indent, frame) ==
    /\ stripped # <<>>
    /\ \A k \in 1..Len(stripped) : stripped[k] = frame.fence_char
    /\ Len(stripped) >= frame.fence_count

\* Scanner._is_close_fence
is_close_fence(stripped, indent, frame) ==
    /\ stripped # <<>>
    /\ stripped[1] = frame.fence_char
    /\ \A k \in 1..Len(stripped) : stripped[k] = frame.fence_char
    /\ Len(stripped) >= frame.fence_count
    /\ indent <= frame.indent

\* Scanner._strip_indent: a space or a tab counts as one unit
RECURSIVE strip_indent(_, _)
strip_indent(line0, indent0) ==
    CHOOSE out_ \in {
       (IF indent = 0 \/ line = <<>> \/ Head(line) \notin Whitespace THEN line
        ELSE strip_indent(Tail(line), indent - 1))
        : line \in {line0}, indent \in {indent0} } : TRUE

\* DirectiveFrame(name, fence_char, fence_count, argument, indent)
DirectiveFrame(name, fence_char, fence_count, argument, indent) ==
    [name |-> name, fence_char |-> fence_char, fence_count |-> fence_count,
     argument |-> argument, options |-> <<>>, body_lines |-> <<>>,
     indent |-> indent]

\* dict.get(key, ""): options is the insertion-ordered list of <<key, value>>
RECURSIVE OptGet(_, _)
OptGet(options0, key0) ==
    CHOOSE out_ \in {
       (IF options = <<>> THEN <<>>
        ELSE IF Head(options)[1] = key THEN Head(options)[2]
        ELSE OptGet(Tail(options), key))
        : options \in {options0}, key \in {key0} } : TRUE

OptHas(options, key) == \E k \in 1..Len(options) : options[k][1] = key

\* dict[key] = value: a present key keeps its place, a new key goes last
OptSet(options, key, value) ==
    IF OptHas(options, key)
    THEN [k \in 1..Len(options) |->
            IF options[k][1] = key THEN <<key, value>> ELSE options[k]]
    ELSE Append(options, <<key, value>>)

----------------------------------------------------------------------------
(* transforms/myst_to_quarto.py: inline roles.                              *)

L3(c) == <<c, c, c>>

RoleTokens(role) ==
    CASE role = "eval"   -> <<"eval">>
      [] role = "cite_t" -> <<"cite", CO, "t">>
      [] role = "cite_p" -> <<"cite", CO, "p">>
      [] role = "cite"   -> <<"cite">>
      [] role = "numref" -> <<"numref">>
      [] role = "ref"    -> <<"ref">>
      [] role = "eq"     -> <<"eq">>
      [] role = "doc"    -> <<"doc">>

replace_eval(g1) == <<BT, "{", "python", "}", SP>> \o g1 \o <<BT>>

replace_cite_t(g1) == <<"@">> \o strip(g1)

AtKeys(keys) == [k \in 1..Len(keys) |-> <<"@">> \o keys[k]]

replace_cite_p(g1) ==
    LET keys == MapStrip(Split(g1, ","))
    IN  IF Len(keys) = 1 THEN <<"[", "@">> \o keys[1] \o <<"]">>
        ELSE <<"[">> \o Join(AtKeys(keys), <<";", SP>>) \o <<"]">>

replace_cite(g1) ==
    LET keys == MapStrip(Split(g1, ","))
    IN  IF Len(keys) = 1 THEN <<"[", "@">> \o keys[1] \o <<"]">>
        ELSE <<"[">> \o Join(AtKeys(keys), <<";", SP>>) \o <<"]">>

\* the last "<" of content that leaves a non-empty group before the final ">"
RECURSIVE LastAngle(_, _)
LastAngle(content0, k0) ==
    CHOOSE out_ \in {
       (IF k < 1 THEN 0 ELSE IF content[k] = "<" THEN k ELSE LastAngle(content, k - 1))
        : content \in {content0}, k \in {k0} } : TRUE

replace_numref(g1) ==
    LET content == strip(g1)
        p == IF content # <<>> /\ content[Len(content)] = ">"
             THEN LastAngle(content, Len(content) - 2) ELSE 0
    IN  IF p > 0 THEN <<"@">> \o strip(SubSeq(content, p + 1, Len(content) - 1))
        ELSE <<"@">> \o content

replace_ref(g1) == <<"@">> \o strip(g1)

\* _replace_eq without the startswith test of line 91
replace_eq_prefixing(g1) == <<"@", "eq", "-">> \o strip(g1)

replace_eq(g1) ==
    LET label == strip(g1)
    IN  IF StartsWith(label, <<"eq", "-">>) THEN <<"@">> \o label
        ELSE <<"@", "eq", "-">> \o label

replace_doc(g1) ==
    LET path == strip(g1)
    IN  <<"[">> \o path \o <<"]", "(">> \o path \o <<".", "qmd", ")">>

Replace(role, g1) ==
    CASE role = "eval"   -> replace_eval(g1)
      [] role = "cite_t" -> replace_cite_t(g1)
      [] role = "cite_p" -> replace_cite_p(g1)
      [] role = "cite"   -> replace_cite(g1)
      [] role = "numref" -> replace_numref(g1)
      [] role = "ref"    -> replace_ref(g1)
      [] role = "eq"     -> replace_eq(g1)
      [] role = "doc"    -> replace_doc(g1)

\* re.sub of \{ROLE\}`([^`]+)` : leftmost matches, left to right, not overlapping
RECURSIVE RoleSub(_, _)
RoleSub(s0, role0) ==
    CHOOSE out_ \in {
       (IF s = <<>> THEN <<>>
        ELSE LET pre  == <<"{">> \o RoleTokens(role) \o <<"}", BT>>
                 rest == Tail2(s, Len(pre) + 1)
                 q    == FindFrom(rest, BT, 1)
             IN  IF StartsWith(s, pre) /\ q >= 2
                 THEN Replace(role, SubSeq(rest, 1, q - 1)) \o RoleSub(Tail2(rest, q + 1), role)
                 ELSE <<Head(s)>> \o RoleSub(Tail(s), role))
        : s \in {s0}, role \in {role0} } : TRUE

transform_inline(line) ==
    IF line = <<>> THEN line
    ELSE RoleSub(RoleSub(RoleSub(RoleSub(RoleSub(RoleSub(RoleSub(RoleSub(line,
            "eval"), "cite_t"), "cite_p"), "cite"), "numref"), "ref"), "eq"), "doc")

----------------------------------------------------------------------------
(* transforms/myst_to_quarto.py: block directives.                          *)

K_tags == <<"tags">>
K_caption == <<"caption">>
K_name == <<"name">>
K_width == <<"width">>
K_label == <<"label">>
K_alt == <<"alt">>

ADMONITION_TYPES == {<<"note">>, <<"warning">>, <<"tip">>, <<"important">>, <<"caution">>}

T_remove_cell == <<"remove", "-", "cell">>
T_remove_input == <<"remove", "-", "input">>
T_remove_output == <<"remove", "-", "output">>
T_hide_input == <<"hide", "-", "input">>

CellOpt(key, value) == <<"#", "|", SP>> \o key \o <<CO, SP>> \o value

\* _TAG_MAP.get(tag): <<>> stands for None
TAG_MAP(tag) ==
    CASE tag = T_remove_cell   -> CellOpt(<<"include">>, <<"false">>)
      [] tag = T_remove_input  -> CellOpt(<<"echo">>, <<"false">>)
      [] tag = T_remove_output -> CellOpt(<<"output">>, <<"false">>)
      [] tag = T_hide_input    -> CellOpt(<<"code", "-", "fold">>, <<"true">>)
      [] OTHER -> <<>>

parse_tags(tags_str) ==
    LET cleaned == stripSet(strip(tags_str), {"[", "]"})
        parts   == SelectSeq(Split(cleaned, ","), LAMBDA t : strip(t) # <<>>)
    IN  [k \in 1..Len(parts) |-> stripSet(strip(parts[k]), {"'", QT})]

transform_code_cell(frame) ==
    LET arg  == IF frame.argument # <<>> THEN strip(frame.argument) ELSE <<"python">>
        lang == IF arg = <<"ipython3">> THEN <<"python">> ELSE arg
        tags == parse_tags(OptGet(frame.options, K_tags))
        opts == SelectSeq([k \in 1..Len(tags) |-> TAG_MAP(tags[k])],
                          LAMBDA o : o # <<>>)
        caption == OptGet(frame.options, K_caption)
        cap  == IF caption # <<>>
                THEN << <<"#", "|", SP, "fig", "-", "cap", CO, SP, QT>> \o caption \o <<QT>> >>
                ELSE <<>>
        head == << L3(BT) \o <<"{">> \o lang \o <<"}">> >> \o opts \o cap
        sep  == IF Len(head) > 1 THEN << <<>> >> ELSE <<>>
    IN  head \o sep \o frame.body_lines \o << L3(BT) >>

AttrGroup(attrs) ==
    IF attrs = <<>> THEN <<>> ELSE <<"{">> \o Join(attrs, <<SP>>) \o <<"}">>

transform_figure(frame) ==
    LET path    == strip(frame.argument)
        kept    == SelectSeq(frame.body_lines, LAMBDA l : strip(l) # <<>>)
        caption == Join(MapStrip(kept), <<SP>>)
        name    == OptGet(frame.options, K_name)
        width   == OptGet(frame.options, K_width)
        attrs   == (IF name # <<>> THEN << <<"#">> \o name >> ELSE <<>>)
                   \o (IF width # <<>>
                       THEN << <<"width", "=", QT>> \o width \o <<QT>> >> ELSE <<>>)
    IN  << <<"!", "[">> \o caption \o <<"]", "(">> \o path \o <<")">> \o AttrGroup(attrs) >>

MathMark == <<"$", "$">>

transform_math(frame) ==
    LET label == OptGet(frame.options, K_label)
    IN  << MathMark >> \o frame.body_lines
        \o (IF label # <<>>
            THEN << MathMark \o <<SP, "{", "#">> \o label \o <<"}">> >>
            ELSE << MathMark >>)

transform_admonition(frame, adm_type, title) ==
    LET header == IF title # <<>>
                  THEN L3(CO) \o <<SP, "{", ".", "callout", "-">> \o adm_type
                       \o <<SP, "title", "=", QT>> \o title \o <<QT, "}">>
                  ELSE L3(CO) \o <<SP, "{", ".", "callout", "-">> \o adm_type \o <<"}">>
    IN  << header >> \o frame.body_lines \o << L3(CO) >>

transform_tab_set(frame) ==
    << L3(CO) \o <<SP, "{", ".", "panel", "-", "tabset", "}">> >>
    \o frame.body_lines \o << L3(CO) >>

transform_tab_item(frame) ==
    << <<"#", "#", SP>> \o strip(frame.argument) >> \o frame.body_lines

transform_margin(frame) ==
    << L3(CO) \o <<SP, "{", ".", "column", "-", "margin", "}">> >>
    \o frame.body_lines \o << L3(CO) >>

transform_image(frame) ==
    LET url   == strip(frame.argument)
        alt   == OptGet(frame.options, K_alt)
        width == OptGet(frame.options, K_width)
        attrs == IF width # <<>>
                 THEN << <<"width", "=", QT>> \o width \o <<QT>> >> ELSE <<>>
    IN  << <<"!", "[">> \o alt \o <<"]", "(">> \o url \o <<")">> \o AttrGroup(attrs) >>

transform_table(frame) ==
    LET caption == strip(frame.argument)
        name    == OptGet(frame.options, K_name)
    IN  frame.body_lines
        \o (IF name # <<>>
            THEN << <<CO, SP>> \o caption \o <<SP, "{", "#">> \o name \o <<"}">> >>
            ELSE IF caption # <<>> THEN << <<CO, SP>> \o caption >>
            ELSE <<>>)

transform_mermaid(frame) ==
    << L3(BT) \o <<"{", "mermaid", "}">> >> \o frame.body_lines \o << L3(BT) >>

WarningLine(name) ==
    <<"<", "!", "-", "-", SP, "WARNING", CO, SP, "unknown", SP, "MyST", SP,
      "directive", SP, "'">> \o name \o <<"'", SP, "-", "-", ">">>

\* _transform_unknown without the option lines of lines 404-405
transform_unknown_no_options(frame) ==
    LET fence == Rep(frame.fence_char, frame.fence_count)
    IN  << WarningLine(frame.name),
           fence \o <<"{">> \o frame.name \o <<"}">>
           \o (IF frame.argument # <<>> THEN <<SP>> \o frame.argument ELSE <<>>) >>
        \o (IF frame.body_lines # <<>> THEN << <<>> >> \o frame.body_lines ELSE <<>>)
        \o << fence >>

transform_unknown(frame) ==
    LET fence == Rep(frame.fence_char, frame.fence_count)
        opts  == [k \in 1..Len(frame.options) |->
                    <<CO>> \o frame.options[k][1] \o <<CO, SP>> \o frame.options[k][2]]
    IN  << WarningLine(frame.name),
           fence \o <<"{">> \o frame.name \o <<"}">>
           \o (IF frame.argument # <<>> THEN <<SP>> \o frame.argument ELSE <<>>) >>
        \o opts
        \o (IF frame.body_lines # <<>> THEN << <<>> >> \o frame.body_lines ELSE <<>>)
        \o << fence >>

transform_directive(frame) ==
    LET name == frame.name
    IN  CASE name = <<"code", "-", "cell">> -> transform_code_cell(frame)
          [] name = <<"figure">> -> transform_figure(frame)
          [] name = <<"math">> -> transform_math(frame)
          [] name \in ADMONITION_TYPES -> transform_admonition(frame, name, <<>>)
          [] name = <<"admonition">> ->
                transform_admonition(frame, <<"note">>, frame.argument)
          [] name = <<"bibliography">> -> <<>>
          [] name = <<"abstract">> -> <<>>
          [] name = <<"tab", "-", "set">> -> transform_tab_set(frame)
          [] name = <<"tab", "-", "item">> -> transform_tab_item(frame)
          [] name = <<"margin">> -> transform_margin(frame)
          [] name = <<"image">> -> transform_image(frame)
          [] name = <<"table">> -> transform_table(frame)
          [] name = <<"tableofcontents">> -> <<>>
          [] name = <<"mermaid">> -> transform_mermaid(frame)
          [] OTHER -> transform_unknown(frame)

----------------------------------------------------------------------------
(* scanner.py: Scanner.scan, one action per branch of the line loop.        *)

line == lines[i + 1]
stripped == lstrip(line)
indent == Len(line) - Len(stripped)

backtick_m == BACKTICK_OPEN_RE(line)
colon_m == COLON_OPEN_RE(line)
open_match == IF backtick_m.ok THEN backtick_m ELSE colon_m

current == stack[Len(stack)]

Scanning == pc = "scan" /\ i < Len(lines)

\* line 87 without the test of in_regular_code_fence
OpensDirectiveAnywhere == backtick_m.ok \/ colon_m.ok

OpensDirective == ~in_regular_code_fence /\ (backtick_m.ok \/ colon_m.ok)

\* the transform callbacks the Scanner is built with in convert_myst_to_quarto
transform_fn(frame) == transform_directive(frame)
inline_fn(l) == transform_inline(l)

\* lines 114-129 with the branch of lines 122-124 left out: every closed
\* frame's lines go to the final output
CloseIntoOutput(stk, out, transformed) ==
    [stack |-> stk, output_lines |-> out \o transformed]

\* lines 114-129: where the lines of a frame closed by its fence go
CloseInto(stk, out, transformed) ==
    IF stk # <<>>
    THEN [stack |-> [stk EXCEPT ![Len(stk)].body_lines = @ \o transformed],
          output_lines |-> out]
    ELSE [stack |-> stk, output_lines |-> out \o transformed]

\* lines 210-213: where the lines of a frame still open at the end of input go
DrainInto(stk, out, transformed) ==
    [stack |-> stk, output_lines |-> out \o transformed]

\* lines 87-106
ScanOpen ==
    /\ Scanning
    /\ OpensDirective
    /\ stack' = Append(stack,
                       DirectiveFrame(open_match.g3, open_match.g2[1],
                                      Len(open_match.g2), strip(open_match.g4),
                                      Len(open_match.g1)))
    /\ in_options' = TRUE
    /\ i' = i + 1
    /\ UNCHANGED <<mode, pc, lines, in_regular_code_fence, regular_fence_char,
                   regular_fence_count, regular_fence_indent, output_lines>>
    /\ UNCHANGED revVars
    /\ UNCHANGED sideVars

\* lines 111-129 with the close condition tried on every open frame: the
\* lowest frame the line closes is popped with all that is above it
ScanCloseLower ==
    /\ Scanning
    /\ ~OpensDirective
    /\ stack # <<>>
    /\ \E k \in 1..Len(stack) : is_close_fence(stripped, indent, stack[k])
    /\ LET low == CHOOSE k \in 1..Len(stack) :
                      /\ is_close_fence(stripped, indent, stack[k])
                      /\ \A j \in 1..(k - 1) : ~is_close_fence(stripped, indent, stack[j])
           r == CloseInto(SubSeq(stack, 1, low - 1), output_lines,
                          transform_fn(stack[low]))
       IN  /\ stack' = r.stack
           /\ output_lines' = r.output_lines
    /\ in_options' = FALSE
    /\ i' = i + 1
    /\ UNCHANGED <<mode, pc, lines, in_regular_code_fence, regular_fence_char,
                   regular_fence_count, regular_fence_indent>>
    /\ UNCHANGED revVars
    /\ UNCHANGED sideVars

\* lines 111-129
ScanClose ==
    /\ Scanning
    /\ ~OpensDirective
    /\ stack # <<>>
    /\ is_close_fence(stripped, indent, current)
    /\ LET frame == current
           r == CloseInto(SubSeq(stack, 1, Len(stack) - 1), output_lines,
                          transform_fn(frame))
       IN  /\ stack' = r.stack
           /\ output_lines' = r.output_lines
    /\ in_options' = FALSE
    /\ i' = i + 1
    /\ UNCHANGED <<mode, pc, lines, in_regular_code_fence, regular_fence_char,
                   regular_fence_count, regular_fence_indent>>
    /\ UNCHANGED revVars
    /\ UNCHANGED sideVars

content == strip_indent(line, current.indent)
opt_match == OPTION_RE(strip(content))

InFrame ==
    /\ Scanning
    /\ ~OpensDirective
    /\ stack # <<>>
    /\ ~is_close_fence(stripped, indent, current)

\* lines 132-141
ScanOption ==
    /\ InFrame
    /\ in_options
    /\ opt_match.ok
    /\ stack' = [stack EXCEPT ![Len(stack)].options =
                    OptSet(@, opt_match.g1, strip(opt_match.g2))]
    /\ i' = i + 1
    /\ UNCHANGED <<mode, pc, lines, in_options, in_regular_code_fence,
                   regular_fence_char, regular_fence_count, regular_fence_indent,
                   output_lines>>
    /\ UNCHANGED revVars
    /\ UNCHANGED sideVars

\* lines 142-148 without line 144: a blank line is skipped and options mode
\* goes on
ScanOptionsSkipBlank ==
    /\ InFrame
    /\ in_options
    /\ ~opt_match.ok
    /\ strip(content) = <<>>
    /\ i' = i + 1
    /\ UNCHANGED <<mode, pc, lines, stack, in_options, in_regular_code_fence,
                   regular_fence_char, regular_fence_count, regular_fence_indent,
                   output_lines>>
    /\ UNCHANGED revVars
    /\ UNCHANGED sideVars

\* lines 142-148
ScanOptionsEndBlank ==
    /\ InFrame
    /\ in_options
    /\ ~opt_match.ok
    /\ strip(content) = <<>>
    /\ in_options' = FALSE
    /\ i' = i + 1
    /\ UNCHANGED <<mode, pc, lines, stack, in_regular_code_fence,
                   regular_fence_char, regular_fence_count, regular_fence_indent,
                   output_lines>>
    /\ UNCHANGED revVars
    /\ UNCHANGED sideVars

\* lines 142-144 and 150-154 with the inline rewriter applied to the body line
ScanBodyInline ==
    /\ InFrame
    /\ in_options => (~opt_match.ok /\ strip(content) # <<>>)
    /\ in_options' = FALSE
    /\ stack' = [stack EXCEPT ![Len(stack)].body_lines = Append(@, inline_fn(content))]
    /\ i' = i + 1
    /\ UNCHANGED <<mode, pc, lines, in_regular_code_fence, regular_fence_char,
                   regular_fence_count, regular_fence_indent, output_lines>>
    /\ UNCHANGED revVars
    /\ UNCHANGED sideVars

\* lines 142-144 and 150-154
ScanBody ==
    /\ InFrame
    /\ in_options => (~opt_match.ok /\ strip(content) # <<>>)
    /\ in_options' = FALSE
    /\ stack' = [stack EXCEPT ![Len(stack)].body_lines = Append(@, content)]
    /\ i' = i + 1
    /\ UNCHANGED <<mode, pc, lines, in_regular_code_fence, regular_fence_char,
                   regular_fence_count, regular_fence_indent, output_lines>>
    /\ UNCHANGED revVars
    /\ UNCHANGED sideVars

Outside == Scanning /\ ~OpensDirective /\ stack = <<>>

regular_fence_m == REGULAR_FENCE_RE(line)

\* lines 160-170 reached also while a directive frame is open
ScanRegularFenceOpenInFrame ==
    /\ Scanning /\ ~OpensDirective
    /\ ~in_regular_code_fence
    /\ regular_fence_m.ok
    /\ regular_fence_indent' = Len(regular_fence_m.g1)
    /\ regular_fence_char' = regular_fence_m.g2[1]
    /\ regular_fence_count' = Len(regular_fence_m.g2)
    /\ in_regular_code_fence' = TRUE
    /\ output_lines' = Append(output_lines, line)
    /\ i' = i + 1
    /\ UNCHANGED <<mode, pc, lines, stack, in_options>>
    /\ UNCHANGED revVars
    /\ UNCHANGED sideVars

\* lines 160-170 (the pattern of lines 172-180 matches no line that the
\* pattern of line 161 rejects, so that branch is never taken)
ScanRegularFenceOpen ==
    /\ Outside
    /\ ~in_regular_code_fence
    /\ regular_fence_m.ok
    /\ regular_fence_indent' = Len(regular_fence_m.g1)
    /\ regular_fence_char' = regular_fence_m.g2[1]
    /\ regular_fence_count' = Len(regular_fence_m.g2)
    /\ in_regular_code_fence' = TRUE
    /\ output_lines' = Append(output_lines, line)
    /\ i' = i + 1
    /\ UNCHANGED <<mode, pc, lines, stack, in_options>>
    /\ UNCHANGED revVars
    /\ UNCHANGED sideVars

close_m == REGULAR_CLOSE_RE(line, regular_fence_char)

\* lines 181-197
ScanRegularFenceLine ==
    /\ Outside
    /\ in_regular_code_fence
    /\ in_regular_code_fence' =
          ~(/\ close_m.ok
            /\ Len(close_m.g2) >= regular_fence_count
            /\ Len(close_m.g1) <= regular_fence_indent)
    /\ output_lines' = Append(output_lines, line)
    /\ i' = i + 1
    /\ UNCHANGED <<mode, pc, lines, stack, in_options, regular_fence_char,
                   regular_fence_count, regular_fence_indent>>
    /\ UNCHANGED revVars
    /\ UNCHANGED sideVars

\* lines 199-206
ScanRegularLine ==
    /\ Outside
    /\ ~in_regular_code_fence
    /\ ~regular_fence_m.ok
    /\ output_lines' = Append(output_lines, inline_fn(line))
    /\ i' = i + 1
    /\ UNCHANGED <<mode, pc, lines, stack, in_options, in_regular_code_fence,
                   regular_fence_char, regular_fence_count, regular_fence_indent>>
    /\ UNCHANGED revVars
    /\ UNCHANGED sideVars

\* line 209: the loop is over and a frame is still open
Draining == pc = "scan" /\ i >= Len(lines) /\ stack # <<>>

\* lines 210-213
Drain ==
    /\ Draining
    /\ LET frame == current
           r == DrainInto(SubSeq(stack, 1, Len(stack) - 1), output_lines,
                          transform_fn(frame))
       IN  /\ stack' = r.stack
           /\ output_lines' = r.output_lines
    /\ UNCHANGED <<mode, pc, lines, i, in_options, in_regular_code_fence,
                   regular_fence_char, regular_fence_count, regular_fence_indent>>
    /\ UNCHANGED revVars
    /\ UNCHANGED sideVars

\* line 215
ScanReturn ==
    /\ pc = "scan"
    /\ i >= Len(lines)
    /\ stack = <<>>
    /\ pc' = "scanned"
    /\ returned' = Append(returned, [text |-> lines, out |-> output_lines])
    /\ UNCHANGED <<mode, fwdVars, revVars>>
    /\ UNCHANGED <<wcVars, fsVars>>

----------------------------------------------------------------------------
(* transforms/quarto_to_myst.py: inline syntax.                             *)

Role(name, body) == <<"{">> \o name \o <<"}", BT>> \o body \o <<BT>>

NoSub == [ok |-> FALSE, len |-> 0, out |-> <<>>]

\* `\{python\}\s+([^`]+)`
INLINE_CODE_RE(s) ==
    LET pre  == <<BT, "{", "python", "}">>
        r    == Tail2(s, Len(pre) + 1)
        ws   == LeadIn(r, Whitespace)
        q    == FindFrom(r, BT, 1)
        g1   == IF q > ws + 1 THEN SubSeq(r, ws + 1, q - 1) ELSE <<r[ws]>>
    IN  IF StartsWith(s, pre) /\ ws >= 1 /\ q > 0 /\ (q > ws + 1 \/ ws >= 2)
        THEN [ok |-> TRUE, len |-> Len(pre) + q, out |-> Role(<<"eval">>, g1)]
        ELSE NoSub

\* (?:;\s*@[\w-]+)* followed by \] : the keys and the length consumed, "]" included
RECURSIVE CiteTail(_)
CiteTail(r0) ==
    CHOOSE out_ \in {
       (IF r # <<>> /\ Head(r) = "]" THEN [ok |-> TRUE, keys |-> <<>>, len |-> 1]
        ELSE IF r # <<>> /\ Head(r) = ";"
        THEN LET ws  == LeadIn(Tail(r), Whitespace)
                 r2  == Tail2(r, ws + 2)
                 w   == LeadWordHyphen(Tail(r2))
                 nxt == CiteTail(Tail2(r2, w + 2))
             IN  IF r2 # <<>> /\ Head(r2) = "@" /\ w >= 1 /\ nxt.ok
                 THEN [ok |-> TRUE, keys |-> << SubSeq(r2, 2, w + 1) >> \o nxt.keys,
                       len |-> 1 + ws + 1 + w + nxt.len]
                 ELSE [ok |-> FALSE, keys |-> <<>>, len |-> 0]
        ELSE [ok |-> FALSE, keys |-> <<>>, len |-> 0])
        : r \in {r0} } : TRUE

\* \[(@[\w-]+(?:;\s*@[\w-]+)+)\] ; the replacement strips each key and its "@"
MULTI_CITE_RE(s) ==
    LET w  == LeadWordHyphen(Tail2(s, 3))
        tl == CiteTail(Tail2(s, w + 3))
    IN  IF /\ StartsWith(s, <<"[", "@">>) /\ w >= 1
           /\ tl.ok /\ Len(tl.keys) >= 1
        THEN [ok |-> TRUE, len |-> 2 + w + tl.len,
              out |-> Role(<<"cite">>,
                           Join(<< SubSeq(s, 3, w + 2) >> \o tl.keys, <<",">>))]
        ELSE NoSub

\* \[@([\w-]+)\]
SINGLE_CITE_RE(s) ==
    LET w == LeadWordHyphen(Tail2(s, 3))
    IN  IF /\ StartsWith(s, <<"[", "@">>) /\ w >= 1
           /\ Len(s) >= w + 3 /\ s[w + 3] = "]"
        THEN [ok |-> TRUE, len |-> w + 3, out |-> Role(<<"cite">>, SubSeq(s, 3, w + 2))]
        ELSE NoSub

\* (?<!\w)@(PFX-[\w-]+)(?!\w)
PREFIX_REF_RE(s, prev, pfx, role) ==
    LET w == LeadWordHyphen(Tail2(s, 4))
    IN  IF /\ ~IsWord(prev)
           /\ StartsWith(s, <<"@", pfx, "-">>) /\ w >= 1
        THEN [ok |-> TRUE, len |-> 3 + w, out |-> Role(role, SubSeq(s, 2, 3 + w))]
        ELSE NoSub

RefPrefixes == {"fig", "eq", "tbl", "sec"}

\* _BARE_CITE_RE without its lookbehind (?<!\w)
BARE_CITE_RE_anywhere(s, prev) ==
    LET w == LeadWordHyphen(Tail2(s, 3))
    IN  IF /\ Len(s) >= 2 /\ s[1] = "@" /\ IsWord(s[2])
           /\ ~(s[2] \in RefPrefixes /\ Len(s) >= 3 /\ s[3] = "-")
        THEN [ok |-> TRUE, len |-> 2 + w,
              out |-> Role(<<"cite", CO, "t">>, SubSeq(s, 2, 2 + w))]
        ELSE NoSub

\* (?<!\w)@((?!fig-|eq-|tbl-|sec-)[\w][\w-]*)(?!\w)
BARE_CITE_RE(s, prev) ==
    LET w == LeadWordHyphen(Tail2(s, 3))
    IN  IF /\ ~IsWord(prev)
           /\ Len(s) >= 2 /\ s[1] = "@" /\ IsWord(s[2])
           /\ ~(s[2] \in RefPrefixes /\ Len(s) >= 3 /\ s[3] = "-")
        THEN [ok |-> TRUE, len |-> 2 + w,
              out |-> Role(<<"cite", CO, "t">>, SubSeq(s, 2, 2 + w))]
        ELSE NoSub

\* path.split("/")[-1]
Basename(path) == LET parts == Split(path, "/") IN parts[Len(parts)]

\* \[([^\]]+)\]\(([^\)]+\.qmd)\) with _replace_doc_link
DOC_LINK_RE(s) ==
    LET q    == FindFrom(s, "]", 2)
        text == SubSeq(s, 2, q - 1)
        r    == Tail2(s, q + 2)
        e    == FindFrom(r, ")", 1)
        url  == SubSeq(r, 1, e - 1)
        path == SubSeq(url, 1, Len(url) - 2)
    IN  IF /\ s # <<>> /\ s[1] = "["
           /\ q > 2
           /\ Len(s) >= q + 1 /\ s[q + 1] = "("
           /\ e > 3 /\ url[Len(url) - 1] = "." /\ url[Len(url)] = "qmd"
        THEN [ok |-> TRUE, len |-> q + 1 + e,
              out |-> IF text = path \/ text = Basename(path)
                      THEN Role(<<"doc">>, path)
                      ELSE SubSeq(s, 1, q + 1 + e)]
        ELSE NoSub

QMatch(rule, s, prev) ==
    CASE rule = "inline_code" -> INLINE_CODE_RE(s)
      [] rule = "multi_cite"  -> MULTI_CITE_RE(s)
      [] rule = "single_cite" -> SINGLE_CITE_RE(s)
      [] rule = "fig_ref"     -> PREFIX_REF_RE(s, prev, "fig", <<"numref">>)
      [] rule = "eq_ref"      -> PREFIX_REF_RE(s, prev, "eq", <<"eq">>)
      [] rule = "tbl_ref"     -> PREFIX_REF_RE(s, prev, "tbl", <<"ref">>)
      [] rule = "sec_ref"     -> PREFIX_REF_RE(s, prev, "sec", <<"ref">>)
      [] rule = "bare_cite"   -> BARE_CITE_RE(s, prev)
      [] rule = "doc_link"    -> DOC_LINK_RE(s)

\* re.sub: leftmost matches, left to right, not overlapping; prev is the
\* character before s in the string the pattern is applied to
RECURSIVE QSub(_, _, _)
QSub(s0, prev0, rule0) ==
    CHOOSE out_ \in {
       (IF s = <<>> THEN <<>>
        ELSE LET m == QMatch(rule, s, prev)
             IN  IF m.ok THEN m.out \o QSub(Tail2(s, m.len + 1), s[m.len], rule)
                 ELSE <<Head(s)>> \o QSub(Tail(s), Head(s), rule))
        : s \in {s0}, prev \in {prev0}, rule \in {rule0} } : TRUE

Sub(s, rule) == QSub(s, SP, rule)

transform_quarto_inline(l) ==
    IF l = <<>> THEN l
    ELSE Sub(Sub(Sub(Sub(Sub(Sub(Sub(Sub(Sub(l,
            "inline_code"), "multi_cite"), "single_cite"), "fig_ref"), "eq_ref"),
            "tbl_ref"), "sec_ref"), "bare_cite"), "doc_link")

----------------------------------------------------------------------------
(* transforms/quarto_to_myst.py: block patterns.                            *)

\* ^#\|\s+([\w-]+):\s+(.+)$
CELL_OPTION_RE(s) ==
    LET ws1 == LeadIn(Tail2(s, 3), Whitespace)
        r1  == Tail2(s, 3 + ws1)
        w   == LeadWordHyphen(r1)
        r2  == Tail2(r1, w + 1)
        ws2 == LeadIn(Tail(r2), Whitespace)
        v   == Tail2(r2, ws2 + 2)
    IN  IF /\ StartsWith(s, <<"#", "|">>) /\ ws1 >= 1 /\ w >= 1
           /\ r2 # <<>> /\ Head(r2) = CO
           /\ ws2 >= 1 /\ (v # <<>> \/ ws2 >= 2)
        THEN [ok |-> TRUE, g1 |-> SubSeq(r1, 1, w),
              g2 |-> IF v # <<>> THEN v ELSE <<r2[ws2 + 1]>>]
        ELSE NoMatch

\* (?:\s+title="([^"]*)")?\s*\} after the callout type
CalloutTail(r) ==
    LET ws == LeadIn(r, Whitespace)
        r1 == Tail2(r, ws + 1)
        t  == Tail2(r1, 4)
        q  == FindFrom(t, QT, 1)
        r2 == lstrip(Tail2(t, q + 1))
    IN  IF /\ ws >= 1 /\ StartsWith(r1, <<"title", "=", QT>>)
           /\ q > 0 /\ r2 # <<>> /\ Head(r2) = "}"
        THEN [ok |-> TRUE, g3 |-> SubSeq(t, 1, q - 1)]
        ELSE IF r1 # <<>> /\ Head(r1) = "}" THEN [ok |-> TRUE, g3 |-> <<>>]
        ELSE NoMatch

\* ^(:{3,})\s*\{\.callout-(note|warning|tip|important|caution)(?:\s+title="([^"]*)")?\s*\}
CALLOUT_RE(s) ==
    LET n  == LeadIn(s, {CO})
        r1 == lstrip(Tail2(s, n + 1))
        tl == CalloutTail(Tail2(r1, 6))
    IN  IF /\ n >= 3 /\ StartsWith(r1, <<"{", ".", "callout", "-">>)
           /\ Len(r1) >= 5 /\ <<r1[5]>> \in ADMONITION_TYPES
           /\ tl.ok
        THEN [ok |-> TRUE, g1 |-> Rep(CO, n), g2 |-> <<r1[5]>>, g3 |-> tl.g3]
        ELSE NoMatch

\* ^(:{3,})\s*\{\.CLASS\} for a two-word class name A-B
COLON_CLASS_RE(s, a, b) ==
    LET n  == LeadIn(s, {CO})
        r1 == lstrip(Tail2(s, n + 1))
    IN  IF n >= 3 /\ StartsWith(r1, <<"{", ".", a, "-", b, "}">>)
        THEN [ok |-> TRUE, g1 |-> Rep(CO, n)]
        ELSE NoMatch

TABSET_RE(s) == COLON_CLASS_RE(s, "panel", "tabset")

MARGIN_RE(s) == COLON_CLASS_RE(s, "column", "margin")

\* ^(`{3,})\{(\w+)\}\s*$
EXEC_CODE_RE(s) ==
    LET n  == LeadIn(s, {BT})
        r1 == Tail2(s, n + 1)
        w  == LeadWord(Tail(r1))
        r2 == Tail2(r1, w + 2)
    IN  IF /\ n >= 3 /\ r1 # <<>> /\ Head(r1) = "{" /\ w >= 1
           /\ r2 # <<>> /\ Head(r2) = "}"
           /\ LeadIn(Tail(r2), Whitespace) = Len(r2) - 1
        THEN [ok |-> TRUE, g1 |-> Rep(BT, n), g2 |-> SubSeq(r1, 2, w + 1)]
        ELSE NoMatch

\* ^(C{3,})\s*$
FENCE_CLOSE_RE(s, C) ==
    LET n == LeadIn(s, {C})
    IN  IF n >= 3 /\ LeadIn(Tail2(s, n + 1), Whitespace) = Len(s) - n
        THEN [ok |-> TRUE, g1 |-> Rep(C, n)]
        ELSE NoMatch

COLON_CLOSE_RE(s) == FENCE_CLOSE_RE(s, CO)

BACKTICK_CLOSE_RE(s) == FENCE_CLOSE_RE(s, BT)

\* ^!\[([^\]]*)\]\(([^)]+)\)\{([^}]+)\}\s*$
IMG_ATTRS_RE(s) ==
    LET q  == FindFrom(s, "]", 3)
        r1 == Tail2(s, q + 2)
        e  == FindFrom(r1, ")", 1)
        r2 == Tail2(r1, e + 2)
        f  == FindFrom(r2, "}", 1)
    IN  IF /\ StartsWith(s, <<"!", "[">>) /\ q > 0
           /\ Len(s) >= q + 1 /\ s[q + 1] = "("
           /\ e > 1
           /\ Len(r1) >= e + 1 /\ r1[e + 1] = "{"
           /\ f > 1
           /\ LeadIn(Tail2(r2, f + 1), Whitespace) = Len(r2) - f
        THEN [ok |-> TRUE, g1 |-> SubSeq(s, 3, q - 1), g2 |-> SubSeq(r1, 1, e - 1),
              g3 |-> SubSeq(r2, 1, f - 1)]
        ELSE NoMatch

\* ^\$\$\s*\{#([\w-]+)\}\s*$
MATH_CLOSE_LABEL_RE(s) ==
    LET r1 == lstrip(Tail2(s, 3))
        w  == LeadWordHyphen(Tail2(r1, 3))
        r2 == Tail2(r1, w + 3)
    IN  IF /\ StartsWith(s, MathMark) /\ StartsWith(r1, <<"{", "#">>) /\ w >= 1
           /\ r2 # <<>> /\ Head(r2) = "}"
           /\ LeadIn(Tail(r2), Whitespace) = Len(r2) - 1
        THEN [ok |-> TRUE, g1 |-> SubSeq(r1, 3, w + 2)]
        ELSE NoMatch

\* ^\$\$\s*$
MATH_OPEN_RE(s) ==
    StartsWith(s, MathMark) /\ LeadIn(Tail2(s, 3), Whitespace) = Len(s) - 2

\* the start of a final \{#(tbl-[\w-]+)\}\s*$ in s, 0 when s does not end so
RECURSIVE TblIdAt(_, _)
TblIdAt(s0, k0) ==
    CHOOSE out_ \in {
       (IF k > Len(s) THEN 0
        ELSE LET r == Tail2(s, k)
                 w == LeadWordHyphen(Tail2(r, 5))
                 e == Tail2(r, w + 5)
             IN  IF /\ StartsWith(r, <<"{", "#", "tbl", "-">>) /\ w >= 1
                    /\ e # <<>> /\ Head(e) = "}"
                    /\ LeadIn(Tail(e), Whitespace) = Len(e) - 1
                 THEN k
                 ELSE TblIdAt(s, k + 1))
        : s \in {s0}, k \in {k0} } : TRUE

\* ^:\s+(.+?)\s*\{#(tbl-[\w-]+)\}\s*$
TABLE_CAPTION_RE(s) ==
    LET k  == TblIdAt(s, 4)
        r  == Tail2(s, k)
        w  == LeadWordHyphen(Tail2(r, 5))
        ws == LeadIn(Tail(s), Whitespace)
        between == SubSeq(s, 2, k - 1)
    IN  IF /\ s # <<>> /\ Head(s) = CO /\ k > 0 /\ ws >= 1
        THEN [ok |-> TRUE,
              g1 |-> IF ws = Len(between) THEN <<between[ws]>>
                     ELSE rstripSet(Tail2(between, ws + 1), Whitespace),
              g2 |-> SubSeq(r, 3, w + 4)]
        ELSE NoMatch

\* ^\|.*\|\s*$
TABLE_ROW_RE(s) ==
    LET t == rstripSet(s, Whitespace)
    IN  Len(t) >= 2 /\ t[1] = "|" /\ t[Len(t)] = "|"

\* _OPTION_TO_TAG[key][value], <<>> when the pair is not in the table
OPTION_TO_TAG(key, value) ==
    CASE key = <<"include">> /\ value = <<"false">> -> T_remove_cell
      [] key = <<"echo">> /\ value = <<"false">> -> T_remove_input
      [] key = <<"output">> /\ value = <<"false">> -> T_remove_output
      [] key = <<"code", "-", "fold">> /\ value = <<"true">> -> T_hide_input
      [] OTHER -> <<>>

EXEC_LANGUAGES == {<<"python">>, <<"r">>, <<"julia">>, <<"bash">>, <<"sh">>,
                   <<"sql">>, <<"ojs">>, <<"dot">>, <<"mermaid">>}

\* str.lower() of a word token (the capitalised tokens the inputs use)
LowerTok(t) ==
    CASE t = "Python" -> "python"
      [] t = "R" -> "r"
      [] OTHER -> t

lower(s) == [k \in 1..Len(s) |-> LowerTok(s[k])]

----------------------------------------------------------------------------
(* transforms/quarto_to_myst.py: block builders.                            *)

\* the index of the first line of body_lines that is not a cell option
RECURSIVE FirstNonOption(_, _)
FirstNonOption(body_lines0, k0) ==
    CHOOSE out_ \in {
       (IF k > Len(body_lines) THEN k
        ELSE IF CELL_OPTION_RE(strip(body_lines[k])).ok THEN FirstNonOption(body_lines, k + 1)
        ELSE k)
        : body_lines \in {body_lines0}, k \in {k0} } : TRUE

RECURSIVE CollectOptions(_, _, _)
CollectOptions(body_lines0, k0, options0) ==
    CHOOSE out_ \in {
       (IF k > Len(body_lines) THEN options
        ELSE LET m == CELL_OPTION_RE(strip(body_lines[k]))
             IN  IF m.ok THEN CollectOptions(body_lines, k + 1, OptSet(options, m.g1, strip(m.g2)))
                 ELSE options)
        : body_lines \in {body_lines0}, k \in {k0}, options \in {options0} } : TRUE

\* _parse_cell_options without lines 206-208: the blank line stays
parse_cell_options_keep_blank(body_lines) ==
    [options |-> CollectOptions(body_lines, 1, <<>>),
     remaining |-> Tail2(body_lines, FirstNonOption(body_lines, 1))]

parse_cell_options(body_lines) ==
    LET k    == FirstNonOption(body_lines, 1)
        rest == Tail2(body_lines, k)
    IN  [options |-> CollectOptions(body_lines, 1, <<>>),
         remaining |-> IF rest # <<>> /\ strip(rest[1]) = <<>> THEN Tail(rest) ELSE rest]

Fence3(name) == L3(BT) \o <<"{">> \o name \o <<"}">>

OptLine(key, value) == <<CO>> \o key \o <<CO, SP>> \o value

RECURSIVE LastFigCap(_, _)
LastFigCap(options0, caption0) ==
    CHOOSE out_ \in {
       (IF options = <<>> THEN caption
        ELSE LET key == Head(options)[1]
                 value == Head(options)[2]
             IN  LastFigCap(Tail(options),
                     IF OPTION_TO_TAG(key, value) = <<>> /\ key = <<"fig", "-", "cap">>
                     THEN stripSet(stripSet(value, {QT}), {"'"})
                     ELSE caption))
        : options \in {options0}, caption \in {caption0} } : TRUE

\* _build_code_cell without the :tags: line of lines 231-233
build_code_cell_untagged(lang, options, body_lines) ==
    << Fence3(<<"code", "-", "cell">>) \o <<SP>> \o lang >> \o body_lines \o << L3(BT) >>

build_code_cell(lang, options, body_lines) ==
    LET hits == SelectSeq(options, LAMBDA o : OPTION_TO_TAG(o[1], o[2]) # <<>>)
        tags == [k \in 1..Len(hits) |-> OPTION_TO_TAG(hits[k][1], hits[k][2])]
        caption == LastFigCap(options, <<>>)
        head == << Fence3(<<"code", "-", "cell">>) \o <<SP>> \o lang >>
                \o (IF tags # <<>>
                    THEN << OptLine(K_tags, <<"[">> \o Join(tags, <<",", SP>>) \o <<"]">>) >>
                    ELSE <<>>)
                \o (IF caption # <<>> THEN << OptLine(K_caption, caption) >> ELSE <<>>)
    IN  head \o (IF Len(head) > 1 THEN << <<>> >> ELSE <<>>) \o body_lines \o << L3(BT) >>

\* _build_admonition writing the note kind whatever adm_type is
build_admonition_note(adm_type, title, body_lines) ==
    << Fence3(<<"note">>) >> \o body_lines \o << L3(BT) >>

build_admonition(adm_type, title, body_lines) ==
    << IF title # <<>> THEN Fence3(<<"admonition">>) \o <<SP>> \o title
       ELSE Fence3(adm_type) >>
    \o body_lines \o << L3(BT) >>

build_margin(body_lines) == << Fence3(<<"margin">>) >> \o body_lines \o << L3(BT) >>

\* re.match(r"^##\s+(.+)$", line)
HEADING_RE(l) ==
    LET ws == LeadIn(Tail2(l, 3), Whitespace)
        r  == Tail2(l, ws + 3)
    IN  IF StartsWith(l, <<"#", "#">>) /\ ws >= 1 /\ (r # <<>> \/ ws >= 2)
        THEN [ok |-> TRUE, g1 |-> IF r # <<>> THEN r ELSE <<l[ws + 2]>>]
        ELSE NoMatch

\* while current_body and current_body[-1].strip() == "": current_body.pop()
RECURSIVE DropTrailingBlank(_)
DropTrailingBlank(body0) ==
    CHOOSE out_ \in {
       (IF body # <<>> /\ strip(body[Len(body)]) = <<>>
        THEN DropTrailingBlank(SubSeq(body, 1, Len(body) - 1))
        ELSE body)
        : body \in {body0} } : TRUE

\* a tab item that keeps the blank lines at the end of its body
TabItemKeepBlank(label, body) ==
    << L3(CO) \o <<"{", "tab", "-", "item", "}", SP>> \o label >>
    \o body \o << L3(CO) >>

TabItem(label, body) ==
    << L3(CO) \o <<"{", "tab", "-", "item", "}", SP>> \o label >>
    \o DropTrailingBlank(body) \o << L3(CO) >>

\* the loop of _build_tab_set; has_label is "current_label is not None"
RECURSIVE TabLoop(_, _, _, _, _)
TabLoop(body_lines0, has_label0, current_label0, current_body0, result0) ==
    CHOOSE out_ \in {
       (IF body_lines = <<>>
        THEN result \o (IF has_label THEN TabItem(current_label, current_body) ELSE <<>>)
        ELSE LET heading_m == HEADING_RE(Head(body_lines))
             IN  IF heading_m.ok
                 THEN TabLoop(Tail(body_lines), TRUE, strip(heading_m.g1), <<>>,
                              result \o (IF has_label
                                         THEN TabItem(current_label, current_body)
                                         ELSE <<>>))
                 ELSE TabLoop(Tail(body_lines), has_label, current_label,
                              Append(current_body, Head(body_lines)), result))
        : body_lines \in {body_lines0}, has_label \in {has_label0}, current_label \in {current_label0}, current_body \in {current_body0}, result \in {result0} } : TRUE

build_tab_set(body_lines) ==
    TabLoop(body_lines, FALSE, <<>>, <<>>,
            << Rep(CO, 4) \o <<"{", "tab", "-", "set", "}">> >>)
    \o << Rep(CO, 4) >>

\* re.search(r"#([\w-]+)", attr_str): <<>> when there is no match
RECURSIVE SearchId(_)
SearchId(a0) ==
    CHOOSE out_ \in {
       (IF a = <<>> THEN <<>>
        ELSE LET w == LeadWordHyphen(Tail(a))
             IN  IF Head(a) = "#" /\ w >= 1 THEN SubSeq(a, 2, w + 1) ELSE SearchId(Tail(a)))
        : a \in {a0} } : TRUE

NotWidthStop(t) == t \notin (Whitespace \cup {QT, "}"})

RECURSIVE LeadWidth(_)
LeadWidth(a0) ==
    CHOOSE out_ \in {
       (IF a = <<>> \/ ~NotWidthStop(Head(a)) THEN 0 ELSE 1 + LeadWidth(Tail(a)))
        : a \in {a0} } : TRUE

\* re.search(r'width="?([^"\s}]+)"?', attr_str): <<>> when there is no match
RECURSIVE SearchWidth(_)
SearchWidth(a0) ==
    CHOOSE out_ \in {
       (IF a = <<>> THEN <<>>
        ELSE LET r == Tail2(a, 3)
                 v == IF r # <<>> /\ Head(r) = QT THEN Tail(r) ELSE r
                 n == LeadWidth(v)
             IN  IF StartsWith(a, <<"width", "=">>) /\ n >= 1 THEN SubSeq(v, 1, n)
                 ELSE SearchWidth(Tail(a)))
        : a \in {a0} } : TRUE

\* _parse_image_attrs: <<>> stands for an absent key
parse_image_attrs(attr_str) == [id |-> SearchId(attr_str), width |-> SearchWidth(attr_str)]

\* a figure directive that leaves the attributes out
build_figure_directive_bare(alt, url, attrs) ==
    << Fence3(<<"figure">>) \o <<SP>> \o url, <<>> >>
    \o (IF alt # <<>> THEN << alt >> ELSE <<>>)
    \o << L3(BT) >>

build_figure_directive(alt, url, attrs) ==
    << Fence3(<<"figure">>) \o <<SP>> \o url >>
    \o (IF attrs.id # <<>> THEN << OptLine(K_name, attrs.id) >> ELSE <<>>)
    \o (IF attrs.width # <<>> THEN << OptLine(K_width, attrs.width) >> ELSE <<>>)
    \o << <<>> >>
    \o (IF alt # <<>> THEN << alt >> ELSE <<>>)
    \o << L3(BT) >>

build_image_directive(alt, url, attrs) ==
    << Fence3(<<"image">>) \o <<SP>> \o url >>
    \o (IF alt # <<>> THEN << OptLine(K_alt, alt) >> ELSE <<>>)
    \o (IF attrs.width # <<>> THEN << OptLine(K_width, attrs.width) >> ELSE <<>>)
    \o << L3(BT) >>

\* a math directive that leaves the label out
build_math_directive_unlabelled(label, body_lines) ==
    << Fence3(<<"math">>), <<>> >> \o body_lines \o << L3(BT) >>

build_math_directive(label, body_lines) ==
    << Fence3(<<"math">>) >>
    \o (IF label # <<>> THEN << OptLine(K_label, label) >> ELSE <<>>)
    \o << <<>> >> \o body_lines \o << L3(BT) >>

build_table_directive(caption, name, table_lines) ==
    << Fence3(<<"table">>) \o <<SP>> \o caption >>
    \o (IF name # <<>> THEN << OptLine(K_name, name) >> ELSE <<>>)
    \o << <<>> >> \o table_lines \o << L3(BT) >>

----------------------------------------------------------------------------
(* transforms/quarto_to_myst.py: convert_quarto_to_myst, one action per      *)
(* branch of the dispatch loop and per iteration of each inner scan.        *)

NoBlk == [fence_count |-> 0, lang |-> <<>>, adm_type |-> <<>>, title |-> <<>>,
          body_lines |-> <<>>]

q_line == input_lines[qi + 1]
q_stripped == strip(q_line)

Dispatching == pc = "q_main" /\ qi < Len(input_lines)

exec_m == EXEC_CODE_RE(q_stripped)
callout_m == CALLOUT_RE(q_stripped)
tabset_m == TABSET_RE(q_stripped)
margin_m == MARGIN_RE(q_stripped)
img_m == IMG_ATTRS_RE(q_stripped)
table_caption_m == TABLE_CAPTION_RE(q_stripped)

IsExecOpen == exec_m.ok /\ lower(exec_m.g2) \in EXEC_LANGUAGES

\* inside an inner scan: the line at the cursor ends the scan
AtFenceClose(re_m) == re_m.ok /\ Len(re_m.g1) >= blk.fence_count

InnerEnd(re_m) == IF qi >= Len(input_lines) THEN TRUE ELSE AtFenceClose(re_m)

\* body_lines.append(input_lines[i]) without the i += 1 that follows it
CollectInPlace(at, re_m) ==
    /\ pc = at
    /\ ~InnerEnd(re_m)
    /\ blk' = [blk EXCEPT !.body_lines = Append(@, q_line)]
    /\ UNCHANGED <<mode, pc, fwdVars, input_lines, qi, q_output_lines,
                   table_lines_buffer, in_table>>
    /\ UNCHANGED sideVars

\* body_lines.append(input_lines[i]); i += 1
Collect(at, re_m) ==
    /\ pc = at
    /\ ~InnerEnd(re_m)
    /\ blk' = [blk EXCEPT !.body_lines = Append(@, q_line)]
    /\ qi' = qi + 1
    /\ UNCHANGED <<mode, pc, fwdVars, input_lines, q_output_lines,
                   table_lines_buffer, in_table>>
    /\ UNCHANGED sideVars

\* output_lines.extend(built); i += 1  # skip closing fence
Emit(at, re_m, built) ==
    /\ pc = at
    /\ InnerEnd(re_m)
    /\ q_output_lines' = q_output_lines \o built
    /\ qi' = qi + 1
    /\ pc' = "q_main"
    /\ blk' = NoBlk
    /\ UNCHANGED <<mode, fwdVars, input_lines, table_lines_buffer, in_table>>
    /\ UNCHANGED sideVars

Enter(at, newblk) ==
    /\ blk' = newblk
    /\ qi' = qi + 1
    /\ pc' = at
    /\ UNCHANGED <<mode, fwdVars, input_lines, q_output_lines,
                   table_lines_buffer, in_table>>

\* lines 424-433
QExecOpen ==
    /\ Dispatching
    /\ IsExecOpen
    /\ Enter("q_exec", [NoBlk EXCEPT !.fence_count = Len(exec_m.g1),
                                     !.lang = exec_m.g2])
    /\ UNCHANGED sideVars

q_close_bt == IF qi < Len(input_lines) THEN BACKTICK_CLOSE_RE(q_stripped) ELSE NoMatch
q_close_co == IF qi < Len(input_lines) THEN COLON_CLOSE_RE(q_stripped) ELSE NoMatch

\* lines 434-439
QExecCollect == Collect("q_exec", q_close_bt)

\* lines 441-446
QExecEnd ==
    LET parsed == parse_cell_options(blk.body_lines)
    IN  Emit("q_exec", q_close_bt,
             build_code_cell(blk.lang, parsed.options, parsed.remaining))

\* lines 451-460
QCalloutOpen ==
    /\ Dispatching
    /\ ~IsExecOpen
    /\ callout_m.ok
    /\ Enter("q_callout", [NoBlk EXCEPT !.fence_count = Len(callout_m.g1),
                                        !.adm_type = callout_m.g2,
                                        !.title = callout_m.g3])
    /\ UNCHANGED sideVars

\* lines 461-466
QCalloutCollect == Collect("q_callout", q_close_co)

\* lines 468-471
QCalloutEnd ==
    Emit("q_callout", q_close_co,
         build_admonition(blk.adm_type, blk.title, blk.body_lines))

\* lines 476-483
QTabsetOpen ==
    /\ Dispatching
    /\ ~IsExecOpen /\ ~callout_m.ok
    /\ tabset_m.ok
    /\ Enter("q_tabset", [NoBlk EXCEPT !.fence_count = Len(tabset_m.g1)])
    /\ UNCHANGED sideVars

\* lines 484-489
QTabsetCollect == Collect("q_tabset", q_close_co)

\* lines 491-494
QTabsetEnd == Emit("q_tabset", q_close_co, build_tab_set(blk.body_lines))

\* lines 499-506
QMarginOpen ==
    /\ Dispatching
    /\ ~IsExecOpen /\ ~callout_m.ok /\ ~tabset_m.ok
    /\ margin_m.ok
    /\ Enter("q_margin", [NoBlk EXCEPT !.fence_count = Len(margin_m.g1)])
    /\ UNCHANGED sideVars

\* lines 507-512
QMarginCollect == Collect("q_margin", q_close_co)

\* lines 514-517
QMarginEnd == Emit("q_margin", q_close_co, build_margin(blk.body_lines))

NoColonBlock == ~IsExecOpen /\ ~callout_m.ok /\ ~tabset_m.ok /\ ~margin_m.ok

\* lines 522-542
ImageLines(alt, url, attrs, l) ==
    IF StartsWith(attrs.id, <<"fig", "-">>) THEN build_figure_directive(alt, url, attrs)
    ELSE IF attrs.id # <<>> \/ attrs.width # <<>> THEN build_image_directive(alt, url, attrs)
    ELSE << transform_quarto_inline(l) >>

QImage ==
    /\ Dispatching
    /\ NoColonBlock
    /\ img_m.ok
    /\ q_output_lines' = q_output_lines
            \o ImageLines(img_m.g1, img_m.g2, parse_image_attrs(img_m.g3), q_line)
    /\ qi' = qi + 1
    /\ UNCHANGED <<mode, pc, fwdVars, input_lines, table_lines_buffer, in_table, blk>>
    /\ UNCHANGED sideVars

\* lines 547-551
QMathOpen ==
    /\ Dispatching
    /\ NoColonBlock /\ ~img_m.ok
    /\ MATH_OPEN_RE(q_stripped)
    /\ Enter("q_math", NoBlk)
    /\ UNCHANGED sideVars

label_m == IF qi < Len(input_lines) THEN MATH_CLOSE_LABEL_RE(q_stripped) ELSE NoMatch

MathEnd ==
    IF qi >= Len(input_lines) THEN TRUE
    ELSE label_m.ok \/ MATH_OPEN_RE(q_stripped)

\* lines 552-562
QMathCollect ==
    /\ pc = "q_math"
    /\ ~MathEnd
    /\ blk' = [blk EXCEPT !.body_lines = Append(@, q_line)]
    /\ qi' = qi + 1
    /\ UNCHANGED <<mode, pc, fwdVars, input_lines, q_output_lines,
                   table_lines_buffer, in_table>>
    /\ UNCHANGED sideVars

\* lines 564-572
MathLines(label, math_body) ==
    IF label # <<>> THEN build_math_directive(label, math_body)
    ELSE << MathMark >> \o math_body \o << MathMark >>

\* lines 552-575
QMathEnd ==
    /\ pc = "q_math"
    /\ MathEnd
    /\ q_output_lines' = q_output_lines
            \o MathLines(IF label_m.ok THEN label_m.g1 ELSE <<>>, blk.body_lines)
    /\ qi' = qi + 1
    /\ pc' = "q_main"
    /\ blk' = NoBlk
    /\ UNCHANGED <<mode, fwdVars, input_lines, table_lines_buffer, in_table>>
    /\ UNCHANGED sideVars

NoBlock == NoColonBlock /\ ~img_m.ok /\ ~MATH_OPEN_RE(q_stripped)

\* lines 590-592: pop len(table_lines_buffer) lines, then extend
Retract(out, buffer, tbl_lines) ==
    SubSeq(out, 1, Len(out) - Len(buffer)) \o tbl_lines

\* the caption branch of lines 580-597 without its "and in_table"
QTableCaption_unbuffered ==
    /\ Dispatching
    /\ NoBlock
    /\ table_caption_m.ok
    /\ q_output_lines' =
          Retract(q_output_lines, table_lines_buffer,
                  build_table_directive(strip(table_caption_m.g1), table_caption_m.g2,
                                        table_lines_buffer))
    /\ table_lines_buffer' = <<>>
    /\ in_table' = FALSE
    /\ qi' = qi + 1
    /\ UNCHANGED <<mode, pc, fwdVars, input_lines, blk>>
    /\ UNCHANGED sideVars

\* lines 580-597
QTableCaption ==
    /\ Dispatching
    /\ NoBlock
    /\ table_caption_m.ok /\ in_table
    /\ q_output_lines' =
          Retract(q_output_lines, table_lines_buffer,
                  build_table_directive(strip(table_caption_m.g1), table_caption_m.g2,
                                        table_lines_buffer))
    /\ table_lines_buffer' = <<>>
    /\ in_table' = FALSE
    /\ qi' = qi + 1
    /\ UNCHANGED <<mode, pc, fwdVars, input_lines, blk>>
    /\ UNCHANGED sideVars

\* lines 602-609
QTableRow ==
    /\ Dispatching
    /\ NoBlock
    /\ ~(table_caption_m.ok /\ in_table)
    /\ TABLE_ROW_RE(q_stripped)
    /\ in_table' = TRUE
    /\ table_lines_buffer' = Append(IF in_table THEN table_lines_buffer ELSE <<>>, q_line)
    /\ q_output_lines' = Append(q_output_lines, q_line)
    /\ qi' = qi + 1
    /\ UNCHANGED <<mode, pc, fwdVars, input_lines, blk>>
    /\ UNCHANGED sideVars

\* lines 610-620
QRegularLine ==
    /\ Dispatching
    /\ NoBlock
    /\ ~(table_caption_m.ok /\ in_table)
    /\ ~TABLE_ROW_RE(q_stripped)
    /\ in_table' = (in_table /\ q_stripped = <<>>)
    /\ table_lines_buffer' = IF in_table /\ q_stripped # <<>> THEN <<>>
                             ELSE table_lines_buffer
    /\ q_output_lines' = Append(q_output_lines, transform_quarto_inline(q_line))
    /\ qi' = qi + 1
    /\ UNCHANGED <<mode, pc, fwdVars, input_lines, blk>>
    /\ UNCHANGED sideVars

\* line 622
QReturn ==
    /\ pc = "q_main"
    /\ qi >= Len(input_lines)
    /\ pc' = "q_done"
    /\ UNCHANGED <<mode, fwdVars, revVars>>
    /\ UNCHANGED sideVars

\* tests/test_roundtrip.py: convert_quarto_to_myst(convert_myst_to_quarto(myst))
Roundtrip ==
    /\ pc = "scanned"
    /\ mode = "roundtrip"
    /\ input_lines' = SplitJoin(output_lines)
    /\ pc' = "q_main"
    /\ UNCHANGED <<mode, fwdVars, qi, q_output_lines, table_lines_buffer, in_table, blk>>
    /\ UNCHANGED sideVars

----------------------------------------------------------------------------
(* The documents the entry points are run on.                               *)

MaxLines == 3
MaxNest == 5
MaxBody == 2
MaxRevLines == 3

\* all sequences over S of length 0..n
SeqsUpTo(S, n) == UNION {[1..k -> S] : k \in 0..n}

Open(fence, name) == fence \o <<"{">> \o name \o <<"}">>

W_note == <<"note">>
W_tip == <<"tip">>
W_code_cell == <<"code", "-", "cell">>

TextHello == <<"Hello", ".">>
TextCite == <<"See", SP, "{", "cite", "}", BT, "k", BT>>
TextAt == <<"@", "key">>
TextIndented == <<SP, SP, "x">>
OptionKV == <<CO, "k", CO, SP, "v">>

\* MyST lines for the fence rule: openers and closers of either character,
\* of length 3 and 4, at indentation 0, 2 and 3
FenceAlphabet ==
    { Open(L3(BT), W_note),                \* ```{note}
      Open(Rep(BT, 4), W_tip),             \* ````{tip}
      Open(L3(CO), <<"foo">>),             \* :::{foo}
      <<SP, SP>> \o Open(L3(BT), W_note),  \* two spaces, ```{note}
      L3(BT), Rep(BT, 4), L3(CO),
      <<SP, SP>> \o L3(BT),
      <<SP, SP, SP>> \o L3(BT) }

FenceDocs == SeqsUpTo(FenceAlphabet, MaxLines) \ {<<>>}

\* MyST lines for plain code fences, option lines and inline roles
PlainAlphabet ==
    { L3(BT) \o <<"python">>,              \* ```python
      L3(TI),                              \* ~~~
      L3(BT),
      <<SP, SP>> \o L3(BT),
      Open(L3(BT), W_note),
      TextCite, OptionKV, <<>> }

PlainDocs == SeqsUpTo(PlainAlphabet, MaxLines) \ {<<>>}

\* a directive the forward table does not know:
\* FENCE{foo} ARG / options / (blank) / body / FENCE, at indentation 0 or 2
W_foo == <<"foo">>
UnknownFences == { L3(BT), Rep(CO, 4) }
UnknownArgs == { <<>>, <<"a", SP, "b">> }
UnknownOptions ==
    { <<>>,
      << OptionKV >>,
      << OptionKV, OptLine(K_name, <<"x">>) >>,
      << OptLine(K_name, <<"x">>), OptionKV >>,
      << OptionKV, OptLine(<<"k">>, <<"w">>) >> }
UnknownBodyAlphabet == { TextHello, <<>>, TextCite }
Indents == { <<>>, <<SP, SP>> }

DirectiveDoc(fence, name, arg, opts, sep, body) ==
    << Open(fence, name) \o (IF arg # <<>> THEN <<SP>> \o arg ELSE <<>>) >>
    \o opts \o sep \o body \o << fence >>

Indented(ind, ls) == [k \in 1..Len(ls) |-> ind \o ls[k]]

UnknownDocs ==
    { Indented(ind, DirectiveDoc(f, W_foo, a, o, sep, b)) :
        ind \in Indents, f \in UnknownFences, a \in UnknownArgs, o \in UnknownOptions,
        sep \in { <<>>, << <<>> >> }, b \in SeqsUpTo(UnknownBodyAlphabet, MaxBody) }

\* a directive the forward table removes, between lines of text:
\* pre / ````{bibliography} / body / ```` / post, or left open to the end
RemovedNames == { <<"bibliography">>, <<"tableofcontents">>, <<"abstract">> }
NestedOpenNote == << Open(L3(CO), W_note), TextHello >>
RemovedBodies ==
    { <<>>,
      << TextHello >>,
      << OptionKV, TextHello >>,
      NestedOpenNote \o << L3(CO) >>,
      NestedOpenNote }
RemovedAround == { <<>>, << TextCite >> }

RemovedDoc(pre, name, body, closer, post) ==
    pre \o << Open(Rep(BT, 4), name) >> \o body \o closer \o post

RemovedDocs ==
    { RemovedDoc(pre, n, b, <<>>, <<>>) :
        pre \in RemovedAround, n \in RemovedNames, b \in RemovedBodies }
    \cup
    { RemovedDoc(pre, n, b, << Rep(BT, 4) >>, post) :
        pre \in RemovedAround, n \in RemovedNames, b \in RemovedBodies,
        post \in RemovedAround }

\* ::::{foo} / lines / ::::, the lines being option lines, blank lines, text
\* and a nested note directive
MaxRun == 4
OptTextAlphabet == { OptionKV, OptLine(K_name, <<"x">>), <<>>, TextHello }
OptRunAlphabet == OptTextAlphabet \cup { Open(L3(CO), W_note), L3(CO) }
OptRunDoc(ls) == << Open(Rep(CO, 4), W_foo) >> \o ls \o << Rep(CO, 4) >>
OptRunDocs == { OptRunDoc(ls) : ls \in SeqsUpTo(OptRunAlphabet, MaxRun) }

FwdDocs == FenceDocs \cup PlainDocs \cup UnknownDocs \cup RemovedDocs \cup OptRunDocs

\* MyST lines for nesting: two fence families, their closers and a text line
NestAlphabet ==
    { Open(L3(CO), W_tip), Open(L3(BT), W_note), L3(CO), L3(BT), TextHello }

NestDocs == SeqsUpTo(NestAlphabet, MaxNest) \ {<<>>}

\* ```{K} / body / ```
AdmBodyAlphabet == { TextHello, <<>>, TextAt, TextCite, TextIndented, L3(CO), OptionKV }

AdmonitionDocs ==
    { << Open(L3(BT), K) >> \o b \o << L3(BT) >> :
        K \in ADMONITION_TYPES, b \in SeqsUpTo(AdmBodyAlphabet, MaxBody) }

\* ```{code-cell} lang / :tags: [...] / body / ```
CellLangs == { <<"python">>, <<"ipython3">>, <<"javascript">> }

TagLists ==
    { <<>>, <<T_hide_input>>, <<T_remove_input, T_hide_input>>,
      <<T_hide_input, T_remove_cell>>,
      <<T_remove_cell, T_remove_input, T_remove_output, T_hide_input>> }

TagsLine(tags) == OptLine(K_tags, <<"[">> \o Join(tags, <<",", SP>>) \o <<"]">>)

CellBodyAlphabet ==
    { <<"x", SP, "=", SP, "1">>, <<>>, CellOpt(<<"echo">>, <<"false">>),
      <<SP, SP>> \o L3(BT), TextAt, OptionKV }

CodeCellDocs ==
    { << Open(L3(BT), W_code_cell) \o <<SP>> \o lang >>
      \o (IF tags = <<>> THEN <<>> ELSE << TagsLine(tags) >>)
      \o b \o << L3(BT) >> :
        lang \in CellLangs, tags \in TagLists, b \in SeqsUpTo(CellBodyAlphabet, MaxBody) }

\* ```{figure} path / :name: N / :width: W / (blank) / caption / ```
FigNames == { <<"fig", "-", "a">>, <<"myfig">>, <<"fig", "-", "a", ".", "b">> }
FigWidths == { <<"80", "%">>, <<"10", SP, "px">> }
FigCaptions == { <<"My", SP, "cap", ".">>, <<"a", "]", "b">>, <<SP, SP, "My", SP, "cap", ".">> }
FigPaths == { <<"images", "/", "plot", ".", "png">>, <<"a", "(", "1", ")", ".", "png">> }

FigureDoc(p, n, w, sep, c) ==
    << Open(L3(BT), <<"figure">>) \o <<SP>> \o p, OptLine(K_name, n), OptLine(K_width, w) >>
    \o sep \o << c, L3(BT) >>

FigureDocs ==
    { FigureDoc(p, n, w, sep, c) :
        p \in FigPaths, n \in FigNames, w \in FigWidths, c \in FigCaptions,
        sep \in { <<>>, << <<>> >> } }

\* ```{math} / :label: X / body / ```
MathLabels == { <<"eq", "-", "e">>, <<"e">>, <<"e", ".", "1">> }

MathBodyAlphabet ==
    { <<"E", SP, "=", SP, "mc", "^", "2">>, <<>>, MathMark, <<SP, SP>> \o MathMark,
      MathMark \o <<SP, "{", "#", "x", "}">>, OptionKV, Open(L3(BT), W_note) }

MathDoc(x, sep, b) ==
    << Open(L3(BT), <<"math">>), OptLine(K_label, x) >> \o sep \o b \o << L3(BT) >>

MathDocs ==
    { MathDoc(x, <<>>, b) : x \in MathLabels, b \in SeqsUpTo(MathBodyAlphabet, MaxBody) }

\* one line: text, one inline role, text
InlinePre == { <<>>, <<"See", SP>>, <<"x">>, <<"(">> }
InlinePost == { <<>>, <<SP, "ok">>, <<".">>, <<"y">>, <<"-", "z">> }

InlineRoles ==
    { [role |-> <<"cite">>, content |-> c] :
        c \in { <<"k">>, <<"a", "-", "b">>, <<SP, "k">>, <<"a", ".", "b">> } }
    \cup { [role |-> <<"eval">>, content |-> c] :
        c \in { <<"2", SP, "+", SP, "2">>, <<SP, "x">> } }
    \cup { [role |-> <<"numref">>, content |-> c] :
        c \in { <<"fig", "-", "a">>, <<"fig", "-", "a", ".", "b">> } }
    \cup { [role |-> <<"doc">>, content |-> c] :
        c \in { <<"methods">>, <<"a", "/", "b">>, <<SP, "m">> } }
    \cup { [role |-> <<"eq">>, content |-> c] :
        c \in { <<"energy">>, <<"eq", "-", "energy">>, <<"e", ".", "1">>, <<"eq", "-">> } }

InlineLine(pre, r, post) == pre \o Role(r.role, r.content) \o post

InlineDocs ==
    { << InlineLine(pre, r, post) >> : pre \in InlinePre, r \in InlineRoles, post \in InlinePost }

RoundtripDocs == AdmonitionDocs \cup CodeCellDocs \cup FigureDocs \cup MathDocs \cup InlineDocs

\* Quarto lines, one for each start pattern of the dispatch loop
CalloutOpen(K) == L3(CO) \o <<SP, "{", ".", "callout", "-">> \o K \o <<"}">>

\* plain and executable fences around lines that start other constructs
RevFenceAlphabet ==
    { L3(BT) \o <<"python">>,                        \* ```python
      Open(L3(BT), <<"python">>),                    \* ```{python}
      L3(BT),
      TextAt,
      CalloutOpen(W_note),
      L3(CO),
      MathMark }

RevBlockAlphabet ==
    { L3(CO) \o <<SP, "{", ".", "panel", "-", "tabset", "}">>,
      <<"#", "#", SP, "Tab">>,
      L3(CO) \o <<SP, "{", ".", "column", "-", "margin", "}">>,
      L3(CO),
      <<"!", "[", "alt", "]", "(", "p", ".", "png", ")", "{", "#", "fig", "-", "a", "}">>,
      MathMark \o <<SP, "{", "#", "eq", "-", "e", "}">>,
      <<"|", SP, "a", SP, "|">>,
      <<CO, SP, "Cap", SP, "{", "#", "tbl", "-", "x", "}">>,
      TextAt,
      <<>> }

\* one line: text, @name, text; the text before ends in a word character
\* (an e-mail address) or does not
AtPre == { <<"x">>, <<"Mail", SP, "user">>, <<"See", SP>>, <<"(">> }
AtNames ==
    { <<"example">>, <<"fig", "-", "a">>, <<"eq", "-", "e">>, <<"tbl", "-", "t">>,
      <<"sec", "-", "s">> }
AtPost == { <<>>, <<".", "com">>, <<SP, "ok">> }

AtLine(pre, name, post) == pre \o <<"@">> \o name \o post

AtDocs == { << AtLine(pre, n, post) >> : pre \in AtPre, n \in AtNames, post \in AtPost }

\* lines in front of a caption line, and caption lines with a tbl- id, with
\* a reference in the caption text, without an id, with another id
TableRow == <<"|", SP, "a", SP, "|">>
TableRule == <<"|", "-", "-", "-", "|">>
CaptionTbl == <<CO, SP, "Cap", SP, "{", "#", "tbl", "-", "x", "}">>
CaptionRef == <<CO, SP, "See", SP, "@", "fig", "-", "a", SP, "{", "#", "tbl", "-", "x", "}">>
CaptionBare == <<CO, SP, "Cap">>
CaptionFig == <<CO, SP, "Cap", SP, "{", "#", "fig", "-", "x", "}">>
CaptionLines == { CaptionTbl, CaptionRef, CaptionBare, CaptionFig }
TableHeads ==
    { <<>>, << TableRow >>, << TableRow, TableRule >>, << TextAt >>, << TableRow, TextAt >> }

TableDocs == { h \o << c >> : h \in TableHeads, c \in CaptionLines }

\* one image line ![alt](p.png){attrs}: the attributes are an id, a width,
\* both, or a class alone
ImgAlts == { <<>>, <<"alt">>, <<"@", "fig", "-", "a">> }
ImgIds == { <<>>, <<"fig", "-", "a">>, <<"tbl", "-", "x">> }
ImgWidths == { <<>>, <<"80", "%">> }
ImgUrl == <<"p", ".", "png">>

ImgAttrs(id, w) ==
    IF id = <<>> /\ w = <<>> THEN <<".", "cls">>
    ELSE (IF id # <<>> THEN <<"#">> \o id ELSE <<>>)
         \o (IF id # <<>> /\ w # <<>> THEN <<SP>> ELSE <<>>)
         \o (IF w # <<>> THEN <<"width", "=", QT>> \o w \o <<QT>> ELSE <<>>)

ImgLine(alt, id, w) ==
    <<"!", "[">> \o alt \o <<"]", "(">> \o ImgUrl \o <<")", "{">> \o ImgAttrs(id, w) \o <<"}">>

ImageDocs ==
    { pre \o << ImgLine(alt, id, w) >> :
        pre \in { <<>>, << TextAt >> }, alt \in ImgAlts, id \in ImgIds, w \in ImgWidths }

\* $$ / body / closer: the closer is $$, $$ {#eq-e}, or missing
MathRevBodyAlphabet == { TextAt, <<"E", SP, "=", SP, "mc", "^", "2">>, <<>> }
MathClosers == { <<>>, << MathMark >>, << MathMark \o <<SP, "{", "#", "eq", "-", "e", "}">> >> }
MathRevDoc(b, closer) == << MathMark >> \o b \o closer
MathRevDocs ==
    { MathRevDoc(b, closer) :
        b \in SeqsUpTo(MathRevBodyAlphabet, MaxBody), closer \in MathClosers }

\* ```{python} / #| options / rest / ```: runs of options with distinct
\* keys, and what follows the run
O_include == << <<"include">>, <<"false">> >>
O_echo == << <<"echo">>, <<"false">> >>
O_output == << <<"output">>, <<"false">> >>
O_fold == << <<"code", "-", "fold">>, <<"true">> >>
O_echo_true == << <<"echo">>, <<"true">> >>
O_label == << <<"label">>, <<"x">> >>
O_cap(q) == << <<"fig", "-", "cap">>, <<q, "My", SP, "plot", q>> >>
CapText == <<"My", SP, "plot">>

CellRuns ==
    { <<>>, << O_include >>, << O_echo >>, << O_output >>, << O_fold >>,
      << O_cap(QT) >>, << O_echo, O_cap(QT) >>, << O_cap("'"), O_echo >>,
      << O_fold, O_output, O_echo, O_include >>,
      << O_include, O_echo, O_output, O_fold >>,
      << O_echo_true, O_fold >>, << O_label, O_include >> }

CellLine == <<"x", SP, "=", SP, "1">>
CellRests ==
    { <<>>, << CellLine >>, << <<>>, CellLine >>, << <<>>, <<>>, CellLine >>,
      << CellLine, CellOpt(<<"echo">>, <<"false">>) >>,
      << <<>>, CellOpt(<<"echo">>, <<"false">>) >>,
      << <<SP, SP>> \o CellLine, TextAt >> }

RunLines(run) == [k \in 1..Len(run) |-> CellOpt(run[k][1], run[k][2])]

ExecRevDoc(run, rest) ==
    << Open(L3(BT), <<"python">>) >> \o RunLines(run) \o rest \o << L3(BT) >>

ExecRevDocs == { ExecRevDoc(run, rest) : run \in CellRuns, rest \in CellRests }

\* ::: {.panel-tabset} / body / ::: , the body being headings, text, empty
\* lines and lines of white space
MaxTab == 4
TabHeading(label) == <<"#", "#", SP>> \o label
TabLabels == { <<"Tab">>, <<"B">> }
TabAlphabet == { TabHeading(l) : l \in TabLabels } \cup { TextAt, <<>>, <<SP>> }
TabsetDoc(b) ==
    << L3(CO) \o <<SP, "{", ".", "panel", "-", "tabset", "}">> >> \o b \o << L3(CO) >>
TabsetDocs == { TabsetDoc(b) : b \in SeqsUpTo(TabAlphabet, MaxTab) }

RevDocs ==
    (SeqsUpTo(RevFenceAlphabet, MaxRevLines) \cup MathRevDocs \cup ExecRevDocs
        \cup TabsetDocs
        \cup SeqsUpTo(RevBlockAlphabet, MaxRevLines) \cup AtDocs \cup TableDocs
        \cup ImageDocs) \ {<<>>}

\* the state before an entry point is called
NoCall == [fn |-> "none"]

\* no conversion under way
ConverterIdle ==
    /\ mode = "idle"
    /\ pc = "idle"
    /\ lines = <<>>
    /\ input_lines = <<>>
    /\ i = 0
    /\ stack = <<>>
    /\ in_options = FALSE
    /\ in_regular_code_fence = FALSE
    /\ regular_fence_char = ""
    /\ regular_fence_count = 0
    /\ regular_fence_indent = 0
    /\ output_lines = <<>>
    /\ qi = 0
    /\ q_output_lines = <<>>
    /\ table_lines_buffer = <<>>
    /\ in_table = FALSE
    /\ blk = NoBlk
    /\ returned = <<>>

\* WarningCollector(): the dataclass defaults of warnings.py lines 15-17
CollectorFresh ==
    /\ warnings = <<>>
    /\ errors = <<>>
    /\ reported = <<>>
    /\ has_errors_ret = "none"

\* an empty disk, nothing called
DiskIdle ==
    /\ call = NoCall
    /\ ncalls = 0
    /\ results = <<>>

Init ==
    /\ ConverterIdle
    /\ CollectorFresh
    /\ strict = FALSE
    /\ DiskIdle
    /\ fs = {}
    /\ dirs = {}

----------------------------------------------------------------------------
(* warnings.py: the WarningCollector.                                       *)

MaxCalls == 3

Messages ==
    { <<"this", SP, "is", SP, "a", SP, "warning">>, <<"parse", SP, "error">> }
Files == { <<>>, <<"doc", ".", "md">> }
LineNos == { 0, 10 }

Digit == <<"0", "1", "2", "3", "4", "5", "6", "7", "8", "9">>

\* str(lineno) for a line number below 100
str(n) ==
    IF n < 10 THEN << Digit[n + 1] >>
    ELSE << Digit[(n \div 10) + 1], Digit[(n % 10) + 1] >>

\* WarningCollector._format
_format(message, file, lineno) ==
    IF file # <<>>
    THEN (IF lineno # 0 THEN file \o <<CO>> \o str(lineno) \o <<CO, SP>>
          ELSE file \o <<CO, SP>>) \o message
    ELSE message

Report(op, formatted) ==
    /\ reported' = Append(reported, [op |-> op, text |-> formatted])
    /\ has_errors_ret' = "none"

\* warn that files the message under warnings whatever the mode
warn_unpromoted(message, file, lineno) ==
    LET formatted == _format(message, file, lineno)
    IN  /\ warnings' = Append(warnings, formatted)
        /\ Report("warn", formatted)
        /\ UNCHANGED <<errors, strict>>

\* WarningCollector.warn
warn(message, file, lineno) ==
    LET formatted == _format(message, file, lineno)
    IN  /\ IF strict
           THEN errors' = Append(errors, formatted) /\ UNCHANGED warnings
           ELSE warnings' = Append(warnings, formatted) /\ UNCHANGED errors
        /\ Report("warn", formatted)
        /\ UNCHANGED strict

\* WarningCollector.error
error(message, file, lineno) ==
    LET formatted == _format(message, file, lineno)
    IN  /\ errors' = Append(errors, formatted)
        /\ Report("error", formatted)
        /\ UNCHANGED <<warnings, strict>>

CallWarn ==
    /\ Len(reported) < MaxCalls
    /\ \E m \in Messages, f \in Files, l \in LineNos : warn(m, f, l)
    /\ UNCHANGED <<mode, pc, fwdVars, revVars, fsVars, histVars>>

CallError ==
    /\ Len(reported) < MaxCalls
    /\ \E m \in Messages, f \in Files, l \in LineNos : error(m, f, l)
    /\ UNCHANGED <<mode, pc, fwdVars, revVars, fsVars, histVars>>

\* WarningCollector.has_errors
has_errors ==
    /\ has_errors_ret' = IF Len(errors) > 0 THEN "True" ELSE "False"
    /\ UNCHANGED <<warnings, errors, strict, reported>>
    /\ UNCHANGED <<mode, pc, fwdVars, revVars, fsVars, histVars>>

\* WarningCollector(strict=...), as cli.py line 35 constructs it
CollectorInit ==
    /\ ConverterIdle
    /\ CollectorFresh
    /\ strict \in BOOLEAN
    /\ DiskIdle
    /\ fs = {}
    /\ dirs = {}

CollectorNext == CallWarn \/ CallError \/ has_errors

CollectorSpec == CollectorInit /\ [][CollectorNext]_vars

----------------------------------------------------------------------------
(* convert.py: files and directories.  A directory is the sequence of its   *)
(* components; a file is a directory, a base name and an extension.         *)

MaxOps == 1

FilePath(dir, base, ext) == [dir |-> dir, base |-> base, ext |-> ext]
\* a path that names a directory, and the output_path None
DirPath(dir) == FilePath(dir, "", "")
NoPath == DirPath(<<>>)

Path(f) == FilePath(f.dir, f.base, f.ext)
File(p, data) == [dir |-> p.dir, base |-> p.base, ext |-> p.ext, content |-> data]

\* os.path.isfile, open(p).read(), open(p, "w").write(c), os.makedirs(d,
\* exist_ok=True), os.remove(p) on the disk st = [fs, dirs]
isfile(st, p) == \E f \in st.fs : Path(f) = p
read(st, p) == (CHOOSE f \in st.fs : Path(f) = p).content
write(st, p, data) ==
    [st EXCEPT !.fs = { f \in @ : Path(f) # p } \cup { File(p, data) }]
makedirs(st, d) ==
    [st EXCEPT !.dirs = @ \cup { SubSeq(d, 1, k) : k \in 1..Len(d) }]
remove(st, p) == [st EXCEPT !.fs = { f \in @ : Path(f) # p }]

\* a file without read and write permission is a file with this content:
\* open(p) and open(p, "w") raise PermissionError, an OSError
Denied == <<"EACCES">>
readable(st, p) == isfile(st, p) /\ read(st, p) # Denied
writable(st, p) == isfile(st, p) => read(st, p) # Denied

MYST_TO_QUARTO == "myst_to_quarto"
QUARTO_TO_MYST == "quarto_to_myst"
Directions == { MYST_TO_QUARTO, QUARTO_TO_MYST }

\* ConversionResult
Result(input_path, output_path, errs, dry_run) ==
    [input_path |-> input_path, output_path |-> output_path,
     errors |-> errs, dry_run |-> dry_run]

_MYST_CONFIG == FilePath(<<>>, "myst", ".yml")
_QUARTO_CONFIG == FilePath(<<>>, "_quarto", ".yml")
skip_dirs == { "_build", ".git", "node_modules" }

IsConfig(p, cfg) == p.base = cfg.base /\ p.ext = cfg.ext
Under(p, directory) == StartsWith(p.dir, directory)
RelDir(p, directory) == SubSeq(p.dir, Len(directory) + 1, Len(p.dir))
Pruned(p, directory) ==
    \E k \in 1..Len(RelDir(p, directory)) : RelDir(p, directory)[k] \in skip_dirs

\* the relative paths a project can hold, in the order sorted() gives them
RelOrder ==
    << FilePath(<<>>, "_quarto", ".yml"),
       FilePath(<<>>, "a", ".md"),
       FilePath(<<>>, "a", ".qmd"),
       FilePath(<<>>, "intro", ".md"),
       FilePath(<<>>, "intro", ".qmd"),
       FilePath(<<>>, "myst", ".yml"),
       FilePath(<<"sub">>, "x", ".md"),
       FilePath(<<"sub">>, "x", ".qmd") >>

\* discover_files
discover_files(st, directory, direction) ==
    LET ext == IF direction = MYST_TO_QUARTO THEN ".md" ELSE ".qmd"
        config_name == IF direction = MYST_TO_QUARTO THEN _MYST_CONFIG ELSE _QUARTO_CONFIG
        all == [k \in 1..Len(RelOrder) |->
                   FilePath(directory \o RelOrder[k].dir, RelOrder[k].base, RelOrder[k].ext)]
    IN  SelectSeq(all, LAMBDA p : /\ isfile(st, p)
                                  /\ (p.ext = ext \/ IsConfig(p, config_name)))

\* the body and frontmatter as the direction's converter leaves them
Converted(direction, text) == <<direction>> \o text

\* convert_file that writes also on a dry run
convert_file_writing(st, input_path, output_path, direction, dry_run) ==
    IF ~isfile(st, input_path)
    THEN [st |-> st,
          result |-> Result(input_path, output_path, <<"Could not read">>, dry_run)]
    ELSE LET output_text == Converted(direction, read(st, input_path))
             made == IF output_path.dir # <<>> THEN makedirs(st, output_path.dir) ELSE st
         IN  [st |-> write(made, output_path, output_text),
              result |-> Result(input_path, output_path, <<>>, dry_run)]

\* convert_file that reports no failed read or write
convert_file_silent(st, input_path, output_path, direction, dry_run) ==
    [st |-> IF dry_run \/ ~readable(st, input_path) \/ ~writable(st, output_path) THEN st
            ELSE write(IF output_path.dir # <<>> THEN makedirs(st, output_path.dir) ELSE st,
                       output_path, Converted(direction, read(st, input_path))),
     result |-> Result(input_path, output_path, <<>>, dry_run)]

\* convert_file
convert_file(st, input_path, output_path, direction, dry_run) ==
    IF ~readable(st, input_path)
    THEN [st |-> st,
          result |-> Result(input_path, output_path, <<"Could not read">>, dry_run)]
    ELSE LET output_text == Converted(direction, read(st, input_path))
             made == IF output_path.dir # <<>> THEN makedirs(st, output_path.dir) ELSE st
         IN  IF dry_run
             THEN [st |-> st, result |-> Result(input_path, output_path, <<>>, dry_run)]
             ELSE IF ~writable(made, output_path)
             THEN [st |-> made,
                   result |-> Result(input_path, output_path, <<"Could not write">>,
                                     dry_run)]
             ELSE [st |-> write(made, output_path, output_text),
                   result |-> Result(input_path, output_path, <<>>, dry_run)]

NewExt(ext, direction) ==
    IF direction = MYST_TO_QUARTO
    THEN (IF ext = ".md" THEN ".qmd" ELSE ext)
    ELSE (IF ext = ".qmd" THEN ".md" ELSE ext)

\* _get_output_path
_get_output_path(input_path, input_dir, output_dir, direction) ==
    FilePath(output_dir \o RelDir(input_path, input_dir), input_path.base,
             NewExt(input_path.ext, direction))

\* _default_output_dir: the directory's name with -quarto or -myst after it
_default_output_dir(input_dir, direction) ==
    LET suffixed == [proj |-> [myst_to_quarto |-> "proj-quarto",
                               quarto_to_myst |-> "proj-myst"]]
        last == input_dir[Len(input_dir)]
    IN  SubSeq(input_dir, 1, Len(input_dir) - 1) \o << suffixed[last][direction] >>

\* _convert_config_file, with convert_myst_config / convert_quarto_config
_convert_config_file(st, config_path, input_dir, output_dir, direction, dry_run) ==
    LET target == IF direction = MYST_TO_QUARTO THEN _QUARTO_CONFIG ELSE _MYST_CONFIG
        out_path == FilePath(output_dir, target.base, target.ext)
    IN  IF dry_run
        THEN [st |-> st, result |-> Result(config_path, out_path, <<>>, dry_run)]
        ELSE [st |-> write(makedirs(st, output_dir), out_path,
                           Converted(direction, read(st, config_path))),
              result |-> Result(config_path, out_path, <<>>, dry_run)]

\* _copy_assets
_copy_assets(st, input_dir, output_dir) ==
    LET assets == { f \in st.fs :
                      /\ Under(f, input_dir) /\ ~Pruned(f, input_dir)
                      /\ f.ext \notin { ".md", ".qmd" }
                      /\ ~IsConfig(f, _MYST_CONFIG) /\ ~IsConfig(f, _QUARTO_CONFIG) }
        dst(f) == FilePath(output_dir \o RelDir(f, input_dir), f.base, f.ext)
        copies == { File(dst(f), f.content) : f \in { a \in assets : ~isfile(st, dst(a)) } }
    IN  [fs |-> st.fs \cup copies,
         dirs |-> st.dirs \cup UNION { { SubSeq(dst(f).dir, 1, k) : k \in 1..Len(dst(f).dir) }
                                        : f \in assets }]

\* the loops of convert_directory lines 268-284: acc = [st, results]
RECURSIVE ConfigLoop(_, _, _, _, _, _)
ConfigLoop(acc, config_files, input_dir, output_dir, direction, dry_run) ==
    IF config_files = <<>> THEN acc
    ELSE LET r == _convert_config_file(acc.st, Head(config_files), input_dir, output_dir,
                                       direction, dry_run)
         IN  ConfigLoop([st |-> r.st, results |-> Append(acc.results, r.result)],
                        Tail(config_files), input_dir, output_dir, direction, dry_run)

RECURSIVE MdLoop(_, _, _, _, _, _, _)
MdLoop(acc, md_files, input_dir, output_dir, direction, in_place, dry_run) ==
    IF md_files = <<>> THEN acc
    ELSE LET md_path == Head(md_files)
             out_path == _get_output_path(md_path, input_dir, output_dir, direction)
             r == convert_file(acc.st, md_path, out_path, direction, dry_run)
             st2 == IF /\ in_place /\ ~dry_run /\ r.result.errors = <<>>
                       /\ md_path # out_path /\ isfile(r.st, md_path)
                    THEN remove(r.st, md_path) ELSE r.st
         IN  MdLoop([st |-> st2, results |-> Append(acc.results, r.result)],
                    Tail(md_files), input_dir, output_dir, direction, in_place, dry_run)

\* _convert_single_file_path; output_dir <<>> is None
_convert_single_file_path(st, file_path, output_dir, direction, dry_run) ==
    LET out_dir == IF output_dir = <<>> THEN _default_output_dir(file_path.dir, direction)
                   ELSE output_dir
        made == IF dry_run THEN st ELSE makedirs(st, out_dir)
        out_path == FilePath(out_dir, file_path.base, NewExt(file_path.ext, direction))
        r == convert_file(made, file_path, out_path, direction, dry_run)
    IN  [st |-> r.st, results |-> << r.result >>]

\* convert_directory; input is a directory or a file, output_dir <<>> is None
convert_directory(st, input, output_dir, direction, in_place, config_only, no_config, dry_run) ==
    IF isfile(st, input)
    THEN _convert_single_file_path(st, input, output_dir, direction, dry_run)
    ELSE LET input_dir == input.dir
             effective_output_dir ==
                 IF in_place THEN input_dir
                 ELSE IF output_dir # <<>> THEN output_dir
                 ELSE _default_output_dir(input_dir, direction)
             made == IF dry_run THEN st ELSE makedirs(st, effective_output_dir)
             all_files == discover_files(st, input_dir, direction)
             config_name == IF direction = MYST_TO_QUARTO THEN _MYST_CONFIG
                            ELSE _QUARTO_CONFIG
             config_files == SelectSeq(all_files, LAMBDA f : IsConfig(f, config_name))
             md_files == SelectSeq(all_files, LAMBDA f : ~IsConfig(f, config_name))
             c == IF no_config THEN [st |-> made, results |-> <<>>]
                  ELSE ConfigLoop([st |-> made, results |-> <<>>], config_files, input_dir,
                                  effective_output_dir, direction, dry_run)
             m == IF config_only THEN c
                  ELSE MdLoop(c, md_files, input_dir, effective_output_dir, direction,
                              in_place, dry_run)
         IN  IF ~in_place /\ ~dry_run /\ ~config_only
             THEN [st |-> _copy_assets(m.st, input_dir, effective_output_dir),
                   results |-> m.results]
             ELSE m

\* the projects of tests/conftest.py: a MyST project and a Quarto project
Proj == <<"proj">>
MystText == <<"myst">>
QuartoText == <<"quarto">>
myst_project ==
    { File(FilePath(Proj, "myst", ".yml"), <<"yaml">>),
      File(FilePath(Proj, "intro", ".md"), MystText),
      File(FilePath(Proj \o <<"sub">>, "x", ".md"), MystText),
      File(FilePath(Proj, "refs", ".bib"), <<"bib">>),
      File(FilePath(Proj \o <<"_build">>, "intro", ".md"), MystText) }
quarto_project ==
    { File(FilePath(Proj, "_quarto", ".yml"), <<"yaml">>),
      File(FilePath(Proj, "a", ".qmd"), QuartoText),
      File(FilePath(Proj, "intro", ".md"), MystText),
      File(FilePath(<<"out">>, "a", ".md"), <<"old">>) }
\* the MyST project after a conversion into out
converted_project ==
    myst_project
    \cup { File(FilePath(<<"out">>, "_quarto", ".yml"), Converted(MYST_TO_QUARTO, <<"yaml">>)),
           File(FilePath(<<"out">>, "intro", ".qmd"), Converted(MYST_TO_QUARTO, MystText)),
           File(FilePath(<<"out", "sub">>, "x", ".qmd"), Converted(MYST_TO_QUARTO, MystText)),
           File(FilePath(<<"out">>, "refs", ".bib"), <<"bib">>) }
\* a MyST project with a source that cannot be read and a source whose
\* output exists and cannot be written
locked_project ==
    { File(FilePath(Proj, "a", ".md"), MystText),
      File(FilePath(Proj, "intro", ".md"), Denied),
      File(FilePath(Proj \o <<"sub">>, "x", ".md"), MystText),
      File(FilePath(Proj \o <<"sub">>, "x", ".qmd"), Denied) }
Projects == { myst_project, quarto_project, converted_project, locked_project }

DirsOf(files) == UNION { { SubSeq(f.dir, 1, k) : k \in 1..Len(f.dir) } : f \in files }

Inputs == { DirPath(Proj), FilePath(Proj, "intro", ".md"), FilePath(Proj, "a", ".qmd") }
OutputDirs == { <<>>, <<"out">> }
FileOutputs == { FilePath(<<"out">>, "intro", ".qmd"), FilePath(<<"out", "deep">>, "a", ".md") }

Disk == [fs |-> fs, dirs |-> dirs]

CallConvertFile ==
    /\ ncalls < MaxOps
    /\ \E input_path \in Inputs \ { DirPath(Proj) }, output_path \in FileOutputs,
          direction \in Directions, dry_run \in BOOLEAN :
          LET r == convert_file(Disk, input_path, output_path, direction, dry_run)
          IN  /\ fs' = r.st.fs
              /\ dirs' = r.st.dirs
              /\ results' = << r.result >>
              /\ call' = [fn |-> "convert_file", input |-> input_path,
                          output |-> output_path, direction |-> direction,
                          dry_run |-> dry_run]
    /\ ncalls' = ncalls + 1
    /\ UNCHANGED <<mode, pc, fwdVars, revVars, wcVars, histVars>>

CallConvertDirectory ==
    /\ ncalls < MaxOps
    /\ \E input \in Inputs, output_dir \in OutputDirs, direction \in Directions,
          in_place \in BOOLEAN, config_only \in BOOLEAN, no_config \in BOOLEAN,
          dry_run \in BOOLEAN :
          LET r == convert_directory(Disk, input, output_dir, direction, in_place,
                                     config_only, no_config, dry_run)
          IN  /\ input = DirPath(Proj) \/ isfile(Disk, input)   \* cli.py: exists=True
              /\ fs' = r.st.fs
              /\ dirs' = r.st.dirs
              /\ results' = r.results
              /\ call' = [fn |-> "convert_directory", input |-> input,
                          output |-> output_dir, direction |-> direction,
                          in_place |-> in_place, config_only |-> config_only,
                          no_config |-> no_config, dry_run |-> dry_run]
    /\ ncalls' = ncalls + 1
    /\ UNCHANGED <<mode, pc, fwdVars, revVars, wcVars, histVars>>

DiskInit ==
    /\ ConverterIdle
    /\ CollectorFresh
    /\ strict = FALSE
    /\ DiskIdle
    /\ fs \in Projects
    /\ dirs = DirsOf(fs)

DiskNext == CallConvertFile \/ CallConvertDirectory

DiskSpec == DiskInit /\ [][DiskNext]_vars

\* convert_myst_to_quarto(text): lines = text.split("\n"), Scanner(...).scan
CallForward ==
    /\ pc = "idle"
    /\ \E text \in FwdDocs \cup NestDocs : lines' = text
    /\ mode' = "forward"
    /\ pc' = "scan"
    /\ UNCHANGED <<i, stack, in_options, in_regular_code_fence, regular_fence_char,
                   regular_fence_count, regular_fence_indent, output_lines>>
    /\ UNCHANGED revVars
    /\ UNCHANGED sideVars

\* convert_quarto_to_myst(convert_myst_to_quarto(text)), the forward half
CallRoundtrip ==
    /\ pc = "idle"
    /\ \E text \in RoundtripDocs : lines' = text
    /\ mode' = "roundtrip"
    /\ pc' = "scan"
    /\ UNCHANGED <<i, stack, in_options, in_regular_code_fence, regular_fence_char,
                   regular_fence_count, regular_fence_indent, output_lines>>
    /\ UNCHANGED revVars
    /\ UNCHANGED sideVars

\* convert_quarto_to_myst(text): input_lines = text.split("\n")
CallReverse ==
    /\ pc = "idle"
    /\ \E text \in RevDocs : input_lines' = text
    /\ mode' = "reverse"
    /\ pc' = "q_main"
    /\ UNCHANGED <<fwdVars, qi, q_output_lines, table_lines_buffer, in_table, blk>>
    /\ UNCHANGED sideVars

Next ==
    \/ CallForward \/ CallRoundtrip \/ CallReverse
    \/ ScanOpen \/ ScanClose \/ ScanOption \/ ScanOptionsEndBlank \/ ScanBody
    \/ ScanRegularFenceOpen \/ ScanRegularFenceLine \/ ScanRegularLine
    \/ Drain \/ ScanReturn
    \/ Roundtrip
    \/ QExecOpen \/ QExecCollect \/ QExecEnd
    \/ QCalloutOpen \/ QCalloutCollect \/ QCalloutEnd
    \/ QTabsetOpen \/ QTabsetCollect \/ QTabsetEnd
    \/ QMarginOpen \/ QMarginCollect \/ QMarginEnd
    \/ QImage
    \/ QMathOpen \/ QMathCollect \/ QMathEnd
    \/ QTableCaption \/ QTableRow \/ QRegularLine
    \/ QReturn

Spec == Init /\ [][Next]_vars

----------------------------------------------------------------------------
(* One Scanner object, or a new one for each text, scanning text after text. *)

MaxScans == 3

\* texts that end inside a directive, inside its options, inside a plain
\* code fence, inside nested directives, and texts that end outside
ReuseDocs ==
    { << Open(L3(CO), W_foo), OptionKV, <<>>, TextCite >>,
      << Open(L3(CO), W_foo), OptionKV >>,
      << L3(BT) \o <<"python">>, TextCite >>,
      << Open(L3(CO), W_tip), Open(L3(BT), W_note), TextHello >>,
      << Open(L3(BT), W_note), TextCite, L3(BT) >>,
      << OptionKV, TextCite >>,
      << TextCite >> }

\* scanner.py lines 63-72: the locals of scan as a call sets them
ScanLocals(text) ==
    /\ lines' = text
    /\ i' = 0
    /\ output_lines' = <<>>
    /\ in_options' = FALSE
    /\ in_regular_code_fence' = FALSE
    /\ regular_fence_char' = ""
    /\ regular_fence_count' = 0
    /\ regular_fence_indent' = 0

CanScan == pc \in {"idle", "scanned"} /\ Len(returned) < MaxScans

\* scan called again with the locals of the call before
ScanReusedKeepLocals ==
    /\ CanScan
    /\ \E text \in ReuseDocs : lines' = text
    /\ i' = 0
    /\ output_lines' = <<>>
    /\ mode' = "forward"
    /\ pc' = "scan"
    /\ UNCHANGED <<stack, in_options, in_regular_code_fence, regular_fence_char,
                   regular_fence_count, regular_fence_indent>>
    /\ UNCHANGED revVars
    /\ UNCHANGED sideVars

\* scanner.scan(text) on the Scanner that is there: scan does not assign
\* self.stack before its loop
ScanReused ==
    /\ CanScan
    /\ \E text \in ReuseDocs : ScanLocals(text)
    /\ mode' = "forward"
    /\ pc' = "scan"
    /\ UNCHANGED stack
    /\ UNCHANGED revVars
    /\ UNCHANGED sideVars

\* Scanner(transform_fn, inline_fn).scan(text): __init__ sets self.stack = []
ScanFresh ==
    /\ CanScan
    /\ \E text \in ReuseDocs : ScanLocals(text)
    /\ stack' = <<>>
    /\ mode' = "forward"
    /\ pc' = "scan"
    /\ UNCHANGED revVars
    /\ UNCHANGED sideVars

ReuseNext ==
    \/ ScanFresh \/ ScanReused
    \/ ScanOpen \/ ScanClose \/ ScanOption \/ ScanOptionsEndBlank \/ ScanBody
    \/ ScanRegularFenceOpen \/ ScanRegularFenceLine \/ ScanRegularLine
    \/ Drain \/ ScanReturn

ReuseSpec == Init /\ [][ReuseNext]_vars

----------------------------------------------------------------------------
(* The same entry points under fairness, on shorter documents.              *)

MaxLive == 2

LiveFwdAlphabet ==
    { Open(L3(BT), W_note), L3(BT), OptionKV, <<>>, TextHello,
      L3(BT) \o <<"python">> }

LiveFwdDocs == SeqsUpTo(LiveFwdAlphabet, MaxLive) \ {<<>>}

LiveRoundtripDocs ==
    { << Open(L3(BT), K), TextHello, L3(BT) >> : K \in ADMONITION_TYPES }

LiveRevAlphabet ==
    { Open(L3(BT), <<"python">>),
      L3(BT),
      CalloutOpen(W_note),
      L3(CO) \o <<SP, "{", ".", "panel", "-", "tabset", "}">>,
      L3(CO) \o <<SP, "{", ".", "column", "-", "margin", "}">>,
      L3(CO),
      <<"!", "[", "alt", "]", "(", "p", ".", "png", ")", "{", "#", "fig", "-", "a", "}">>,
      MathMark,
      <<"|", SP, "a", SP, "|">>,
      <<CO, SP, "Cap", SP, "{", "#", "tbl", "-", "x", "}">> }

LiveRevDocs == SeqsUpTo(LiveRevAlphabet, MaxLive) \ {<<>>}

CallForwardLive ==
    /\ pc = "idle"
    /\ \E text \in LiveFwdDocs : lines' = text
    /\ mode' = "forward"
    /\ pc' = "scan"
    /\ UNCHANGED <<i, stack, in_options, in_regular_code_fence, regular_fence_char,
                   regular_fence_count, regular_fence_indent, output_lines>>
    /\ UNCHANGED revVars
    /\ UNCHANGED sideVars

CallRoundtripLive ==
    /\ pc = "idle"
    /\ \E text \in LiveRoundtripDocs : lines' = text
    /\ mode' = "roundtrip"
    /\ pc' = "scan"
    /\ UNCHANGED <<i, stack, in_options, in_regular_code_fence, regular_fence_char,
                   regular_fence_count, regular_fence_indent, output_lines>>
    /\ UNCHANGED revVars
    /\ UNCHANGED sideVars

CallReverseLive ==
    /\ pc = "idle"
    /\ \E text \in LiveRevDocs : input_lines' = text
    /\ mode' = "reverse"
    /\ pc' = "q_main"
    /\ UNCHANGED <<fwdVars, qi, q_output_lines, table_lines_buffer, in_table, blk>>
    /\ UNCHANGED sideVars

NextLive ==
    \/ CallForwardLive \/ CallRoundtripLive \/ CallReverseLive
    \/ ScanOpen \/ ScanClose \/ ScanOption \/ ScanOptionsEndBlank \/ ScanBody
    \/ ScanRegularFenceOpen \/ ScanRegularFenceLine \/ ScanRegularLine
    \/ Drain \/ ScanReturn
    \/ Roundtrip
    \/ QExecOpen \/ QExecCollect \/ QExecEnd
    \/ QCalloutOpen \/ QCalloutCollect \/ QCalloutEnd
    \/ QTabsetOpen \/ QTabsetCollect \/ QTabsetEnd
    \/ QMarginOpen \/ QMarginCollect \/ QMarginEnd
    \/ QImage
    \/ QMathOpen \/ QMathCollect \/ QMathEnd
    \/ QTableCaption \/ QTableRow \/ QRegularLine
    \/ QReturn

\* Each converter is a loop of one thread: a step that can be taken is taken.
FairSpec == Init /\ [][NextLive]_vars /\ WF_vars(NextLive)

----------------------------------------------------------------------------
(* Properties of the forward scanner.                                       *)

\* s is the character C repeated n times for some n >= L
SolelyRepeated(s, C, L) == \E n \in L..Len(s) : s = Rep(C, n)

C1_Step ==
    (Scanning /\ stack # <<>>) =>
        LET top == stack[Len(stack)]
        IN  (Len(stack') < Len(stack))
            <=> /\ SolelyRepeated(lstrip(line), top.fence_char, top.fence_count)
                /\ LeadIn(line, Whitespace) <= top.indent

\* C1: while a frame opened with fence character C, fence length L and
\* indentation I is the top of the stack, the line at the cursor pops it if
\* and only if the line without its leading whitespace is C repeated n >= L
\* times and the line's leading-whitespace count is <= I.
C1_CloseFenceIff == [][C1_Step]_vars

\* ```{note} has just been closed by the longer fence ````
C1_Witness ==
    /\ mode = "forward" /\ pc = "scan"
    /\ lines = << Open(L3(BT), W_note), Rep(BT, 4) >>
    /\ i = 2
    /\ stack = <<>>
    /\ output_lines = << CalloutOpen(W_note), L3(CO) >>

\* a callout block as the forward transform writes it
Wrapped(K, body) == << CalloutOpen(K) >> \o body \o << L3(CO) >>

\* B closes while A is open: A's body gains exactly the block transform's
\* lines for B, at its end, and nothing reaches the final output.
\* B opens while A is open: no frame already on the stack changes.
C2_Step ==
    (Scanning /\ Len(stack) >= 2 /\ Len(stack') < Len(stack)) =>
        LET n == Len(stack)
            A == stack[n - 1]
            B == stack[n]
        IN  /\ stack' = Append(SubSeq(stack, 1, n - 2),
                               [A EXCEPT !.body_lines =
                                   @ \o transform_directive(B)])
            /\ output_lines' = output_lines

C2_OpenStep ==
    (Scanning /\ stack # <<>> /\ Len(stack') > Len(stack)) =>
        /\ SubSeq(stack', 1, Len(stack)) = stack
        /\ output_lines' = output_lines

TextSeqs == SeqsUpTo({TextHello}, MaxNest)

\* :::{tip} / pre / ```{note} / inner / ``` / post / :::
NestedDoc(pre, inner, post) ==
    << Open(L3(CO), W_tip) >> \o pre \o << Open(L3(BT), W_note) >> \o inner
    \o << L3(BT) >> \o post \o << L3(CO) >>

C2_Final ==
    (mode = "forward" /\ pc = "scanned" /\ lines[1] = Open(L3(CO), W_tip)) =>
        \A pre \in TextSeqs, inner \in TextSeqs, post \in TextSeqs :
            lines = NestedDoc(pre, inner, post) =>
                output_lines = Wrapped(W_tip, pre \o Wrapped(W_note, inner) \o post)

\* C2: for a directive A whose body contains a directive B opened and closed
\* while A is open, the output is A's transformed wrapper with the block
\* transform's lines for B embedded in A's body at B's position among A's
\* other body lines, at any nesting depth; B's raw fence lines are never
\* copied into A's body.
C2_NestedEmbedded == [][C2_Step /\ C2_OpenStep]_vars /\ []C2_Final

\* :::{tip} / Hello. / ```{note} / ``` has been read: the note's callout
\* follows Hello. in the body of the tip, which is still open
C2_Witness ==
    /\ mode = "forward" /\ pc = "scan"
    /\ Len(stack) = 1
    /\ stack[1].name = W_tip
    /\ stack[1].body_lines = << TextHello >> \o Wrapped(W_note, <<>>)
    /\ output_lines = <<>>

\* ``` or ~~~ of length >= 3 with an optional language word
PlainOpener(l) ==
    LET s == lstrip(l)
        n == LeadIn(s, {BT}) + LeadIn(s, {TI})
        r == Tail2(s, n + 1)
    IN  n >= 3 /\ (r = <<>> \/ (Len(r) = 1 /\ IsWord(r[1])))

\* same character as the opener, at least its length, at most its indentation
PlainCloser(l, opener) ==
    LET s == lstrip(opener)
    IN  /\ SolelyRepeated(lstrip(l), s[1], LeadIn(s, {s[1]}))
        /\ LeadIn(l, Whitespace) <= LeadIn(opener, Whitespace)

\* the index of the first closer of the fence opened by line 1, or the
\* number of lines when it is never closed
FenceEnd ==
    LET closers == { k \in 2..Len(lines) : PlainCloser(lines[k], lines[1]) }
    IN  IF closers = {} THEN Len(lines)
        ELSE CHOOSE k \in closers : \A j \in closers : k <= j

\* inside a plain fence the line at the cursor is appended as it is, and no
\* frame is pushed or popped
C3_Step ==
    (Scanning /\ in_regular_code_fence) =>
        /\ output_lines' = Append(output_lines, line)
        /\ stack = <<>> /\ stack' = <<>>

C3_Final ==
    (mode = "forward" /\ pc = "scanned" /\ PlainOpener(lines[1])) =>
        /\ Len(output_lines) >= FenceEnd
        /\ SubSeq(output_lines, 1, FenceEnd) = SubSeq(lines, 1, FenceEnd)

\* C3: every line between a plain code fence opener met outside any
\* directive and its closer is copied to the output unchanged and in order;
\* it is never pushed as a frame, never closes one and never goes through
\* the inline rewriter.
C3_PlainFenceInert == [][C3_Step]_vars /\ []C3_Final

\* ```python / ```{note} / See {cite}`k` has been read: the directive
\* opener and the role are in the output as they were written
C3_Witness ==
    /\ mode = "forward" /\ pc = "scan"
    /\ in_regular_code_fence
    /\ i = 3
    /\ output_lines = << L3(BT) \o <<"python">>, Open(L3(BT), W_note), TextCite >>
    /\ transform_inline(TextCite) # TextCite

\* a frame popped at the end of the input goes into the body of the frame
\* below it, and to the final output only when it was the last one
C6_Step ==
    Draining =>
        LET n == Len(stack)
            top == stack[n]
        IN  IF n >= 2
            THEN /\ stack' = Append(SubSeq(stack, 1, n - 2),
                                    [stack[n - 1] EXCEPT !.body_lines =
                                        @ \o transform_directive(top)])
                 /\ output_lines' = output_lines
            ELSE /\ stack' = <<>>
                 /\ output_lines' = output_lines \o transform_directive(top)

\* :::{tip} / ```{note} / inner, neither closed
C6_Final ==
    (mode = "forward" /\ pc = "scanned" /\ lines[1] = Open(L3(CO), W_tip)) =>
        \A inner \in TextSeqs :
            lines = << Open(L3(CO), W_tip), Open(L3(BT), W_note) >> \o inner =>
                output_lines = Wrapped(W_tip, Wrapped(W_note, inner))

\* C6: when the input ends with frames still open, they are popped in LIFO
\* order and each popped frame's transform result is appended to the body
\* of the frame that is now the top of the stack if one remains, and to the
\* final output only when none remains; for unterminated A containing
\* unterminated B, B's lines end up inside A's wrapper.
C6_DrainNests == [][C6_Step]_vars /\ []C6_Final

----------------------------------------------------------------------------
(* Properties of the reverse converter.                                     *)

\* the index of the first closer of the fence opened by input line 1, or
\* the number of input lines when it is never closed
QFenceEnd ==
    LET closers == { k \in 2..Len(input_lines) :
                        PlainCloser(input_lines[k], input_lines[1]) }
    IN  IF closers = {} THEN Len(input_lines)
        ELSE CHOOSE k \in closers : \A j \in closers : k <= j

\* C4: in the reverse direction every line between a plain (non-executable)
\* code fence opener and its closing fence is copied to the output
\* unchanged: it is not rewritten by the reverse inline rewriter and starts
\* no callout, tab-group, margin, image, math or table construct.
C4_PlainFenceInertReverse ==
    (mode = "reverse" /\ pc = "q_done" /\ PlainOpener(input_lines[1])) =>
        /\ Len(q_output_lines) >= QFenceEnd
        /\ SubSeq(q_output_lines, 1, QFenceEnd) = SubSeq(input_lines, 1, QFenceEnd)

----------------------------------------------------------------------------
(* Termination of both converters.                                          *)

InnerScanning == pc \in {"q_exec", "q_callout", "q_tabset", "q_margin", "q_math"}

Returned == (mode = "forward" /\ pc = "scanned") \/ pc = "q_done"

\* every step of the forward loop, of the reverse dispatch loop and of an
\* inner closing-pattern scan moves its cursor forward; a drain step pops
\* exactly one frame
C5_Step ==
    /\ Scanning => (i' >= i + 1 /\ i' <= Len(lines))
    /\ Draining => (Len(stack') = Len(stack) - 1 /\ i' = i)
    /\ (Dispatching \/ InnerScanning) => qi' >= qi + 1

\* C5: both converters terminate and return an output for every finite
\* sequence of input lines, unterminated or malformed constructs included:
\* each loop step advances the line cursor by at least one line and the
\* end-of-input drain pops one frame per step until the stack is empty.
C5_Terminates == [][C5_Step]_vars /\ <>Returned

\* the forward scanner has returned after draining two frames left open by
\* ```{note} / ```{note}
C5_Witness ==
    /\ mode = "forward" /\ pc = "scanned"
    /\ lines = << Open(L3(BT), W_note), Open(L3(BT), W_note) >>
    /\ stack = <<>>
    /\ output_lines # <<>>

----------------------------------------------------------------------------
(* Round trips: convert_quarto_to_myst(convert_myst_to_quarto(text)).       *)

RoundtripDone == mode = "roundtrip" /\ pc = "q_done"

\* a line made of one fence character only, whatever its indentation
FenceLine(l) == \E C \in {BT, CO, TI} : SolelyRepeated(strip(l), C, 3)

OptionLine(l) == OPTION_RE(strip(l)).ok

\* a line that starts a construct in either dialect
ConstructStart(l) ==
    \/ BACKTICK_OPEN_RE(l).ok \/ COLON_OPEN_RE(l).ok
    \/ EXEC_CODE_RE(strip(l)).ok \/ CALLOUT_RE(strip(l)).ok
    \/ TABSET_RE(strip(l)).ok \/ MARGIN_RE(strip(l)).ok
    \/ IMG_ATTRS_RE(strip(l)).ok \/ MATH_OPEN_RE(strip(l))
    \/ TABLE_CAPTION_RE(strip(l)).ok \/ TABLE_ROW_RE(strip(l))

OrdinaryBody(b) ==
    /\ b # <<>> => strip(b[1]) # <<>>
    /\ \A k \in 1..Len(b) :
          ~FenceLine(b[k]) /\ ~OptionLine(b[k]) /\ ~ConstructStart(b[k])

\* the lines between the first and the last line of a document
Inner(ls) == SubSeq(ls, 2, Len(ls) - 1)

\* C7: for each of the 5 admonition kinds K and every body of ordinary text
\* lines (first line non-blank, no fence, option or construct-start line),
\* the round trip of ```{K} / body / ``` is literally ```{K} / body / ```.
C7_AdmonitionRoundTrip ==
    RoundtripDone =>
        \A K \in ADMONITION_TYPES :
            (/\ Len(lines) >= 2
             /\ lines[1] = Open(L3(BT), K)
             /\ lines[Len(lines)] = L3(BT)
             /\ OrdinaryBody(Inner(lines)))
            => q_output_lines = lines

\* ```{warning} / Hello. / @key / ``` went to a callout and came back
C7_Witness ==
    /\ RoundtripDone
    /\ lines = << Open(L3(BT), <<"warning">>), TextHello, TextAt, L3(BT) >>
    /\ input_lines = Wrapped(<<"warning">>, << TextHello, TextAt >>)
    /\ q_output_lines = lines

\* ```{code-cell} LANG as the first line and ``` as the last
CellHead == Open(L3(BT), W_code_cell) \o <<SP>>

IsCellDoc(ls) ==
    /\ Len(ls) >= 2
    /\ StartsWith(ls[1], CellHead)
    /\ Tail2(ls[1], Len(CellHead) + 1) \in CellLangs
    /\ ls[Len(ls)] = L3(BT)

CellLang(ls) == Tail2(ls[1], Len(CellHead) + 1)

HasTagsLine(ls) == \E t \in TagLists : t # <<>> /\ ls[2] = TagsLine(t)

CellTags(ls) ==
    IF HasTagsLine(ls) THEN CHOOSE t \in TagLists : ls[2] = TagsLine(t) ELSE <<>>

CellBody(ls) == IF HasTagsLine(ls) THEN SubSeq(ls, 3, Len(ls) - 1) ELSE Inner(ls)

\* out is a code-cell directive with this language, these tags and this body
\* (a blank line may separate the :tags: line from the body)
IsCodeCell(out, lang, tags, body) ==
    \/ out = << CellHead \o lang >>
             \o (IF tags = <<>> THEN <<>> ELSE << TagsLine(tags) >>)
             \o body \o << L3(BT) >>
    \/ /\ tags # <<>>
       /\ out = << CellHead \o lang, TagsLine(tags), <<>> >> \o body \o << L3(BT) >>

\* a #| key: value comment
OptionComment(l) == CELL_OPTION_RE(strip(l)).ok

BacktickFenceLine(l) == SolelyRepeated(strip(l), BT, 3)

CellBodyKept(ls) ==
    LET body == CellBody(ls)
    IN  /\ body # <<>>
        /\ strip(body[1]) # <<>>
        /\ ~OptionLine(body[1])
        /\ (HasTagsLine(ls) \/ ~OptionComment(body[1]))
        /\ \A k \in 1..Len(body) : ~BacktickFenceLine(body[k])

IsFigure(out, p, n, w, c) ==
    \E sep \in { <<>>, << <<>> >> } : out = FigureDoc(p, n, w, sep, c)

FigureName(n) == StartsWith(n, <<"fig", "-">>) /\ \A k \in 1..Len(n) : IsWordOrHyphen(n[k])

\* a width the attribute pattern reads back whole
PlainWidth(w) == \A k \in 1..Len(w) : NotWidthStop(w[k])

Lacks(s, t) == \A k \in 1..Len(s) : s[k] # t

MathLabelHead == OptLine(K_label, <<>>)

IsMathDoc(ls) ==
    /\ Len(ls) >= 3
    /\ ls[1] = Open(L3(BT), <<"math">>)
    /\ StartsWith(ls[2], MathLabelHead) /\ Len(ls[2]) > Len(MathLabelHead)
    /\ ls[Len(ls)] = L3(BT)

MathLabel(ls) == Tail2(ls[2], Len(MathLabelHead) + 1)

MathBody(ls) == SubSeq(ls, 3, Len(ls) - 1)

WordLabel(x) == \A k \in 1..Len(x) : IsWordOrHyphen(x[k])

\* out is a math directive with this label and this body (a blank line
\* may separate the :label: line from the body)
IsMath(out, x, b) == \E sep \in { <<>>, << <<>> >> } : out = MathDoc(x, sep, b)

\* C10 as claimed: for a math directive with option :label: X (X made of
\* word characters and hyphens) and body lines B none of which is a $$
\* line, the round trip is a math directive with :label: X and exactly the
\* body lines B in order.
C10_AsClaimed ==
    (/\ RoundtripDone /\ IsMathDoc(lines)
     /\ WordLabel(MathLabel(lines))
     /\ \A k \in 1..Len(MathBody(lines)) : ~MATH_OPEN_RE(strip(MathBody(lines)[k])))
    => IsMath(q_output_lines, MathLabel(lines), MathBody(lines))

\* no line of the body ends the $$ block on the way back, the first is
\* not read as an option and none opens a directive of its own
MathBodyKept(b) ==
    /\ b # <<>> => ~OptionLine(b[1])
    /\ \A k \in 1..Len(b) :
          /\ ~MATH_OPEN_RE(strip(b[k]))
          /\ ~MATH_CLOSE_LABEL_RE(strip(b[k])).ok
          /\ ~BACKTICK_OPEN_RE(b[k]).ok /\ ~COLON_OPEN_RE(b[k]).ok

\* C10: for a math directive with option :label: X (X made of word
\* characters and hyphens) and body lines B none of which, stripped, is a
\* $$ line or a $$ {#id} line, none of which opens a directive, and the
\* first of which is not a :key: value line, the round trip is a math
\* directive with :label: X and exactly the body lines B in order.
C10_MathRoundTrip ==
    (/\ RoundtripDone /\ IsMathDoc(lines)
     /\ WordLabel(MathLabel(lines))
     /\ MathBodyKept(MathBody(lines)))
    => IsMath(q_output_lines, MathLabel(lines), MathBody(lines))

\* the block eq-e with two body lines went to $$ ... $$ {#eq-e} and came back
C10_Witness ==
    /\ RoundtripDone
    /\ lines = MathDoc(<<"eq", "-", "e">>, <<>>,
                       << <<"E", SP, "=", SP, "mc", "^", "2">>, OptionKV >>)
    /\ input_lines = << MathMark, <<"E", SP, "=", SP, "mc", "^", "2">>, OptionKV,
                        MathMark \o <<SP, "{", "#", "eq", "-", "e", "}">> >>
    /\ q_output_lines = << Fence3(<<"math">>), OptLine(K_label, <<"eq", "-", "e">>), <<>>,
                           <<"E", SP, "=", SP, "mc", "^", "2">>, OptionKV, L3(BT) >>

----------------------------------------------------------------------------
(* Round trips of inline roles.                                             *)

\* the label the forward pass gives an equation reference
EqLabel(L) == IF StartsWith(L, <<"eq", "-">>) THEN L ELSE <<"eq", "-">> \o L

\* the line the round trip of pre {role}`content` post is to give
InlineBack(pre, r, post) ==
    IF r.role = <<"eq">>
    THEN pre \o Role(<<"eq">>, EqLabel(r.content)) \o post
    ELSE InlineLine(pre, r, post)

\* one more round trip of a line, as the two inline rewrites compute it
AgainBack(l) == transform_quarto_inline(transform_inline(l))

WordKey(c) == c # <<>> /\ \A k \in 1..Len(c) : IsWordOrHyphen(c[k])

\* the content of a role that the round trip reads back whole
CleanContent(r) ==
    CASE r.role = <<"cite">>   -> WordKey(r.content)
      [] r.role = <<"eval">>   -> r.content[1] \notin Whitespace
      [] r.role = <<"numref">> -> WordKey(r.content) /\ Len(r.content) > 2
      [] r.role = <<"doc">>    -> strip(r.content) = r.content
      [] r.role = <<"eq">>     -> WordKey(r.content) /\ r.content # <<"eq", "-">>

\* the role goes to @id: the text around it must not run into the id
AtForm(r) == r.role \in { <<"numref">>, <<"eq">> }

Detached(pre, post) ==
    /\ pre # <<>> => ~IsWord(pre[Len(pre)])
    /\ post # <<>> => ~IsWordOrHyphen(post[1])

----------------------------------------------------------------------------
(* The reverse inline rewrite and e-mail addresses.                         *)

ReverseDone == mode = "reverse" /\ pc = "q_done"

\* C12: the reverse inline rewrite never rewrites an @name token whose @
\* directly follows a word character: the line is emitted unchanged,
\* whether name is a plain key or starts with fig-, eq-, tbl- or sec-.
C12_AtAfterWordKept ==
    ReverseDone =>
        \A pre \in AtPre, n \in AtNames, post \in AtPost :
            (input_lines = << AtLine(pre, n, post) >> /\ IsWord(pre[Len(pre)]))
            => q_output_lines = input_lines

\* Mail user@example.com came out as it went in, while See @example.com
\* is a citation
C12_Witness ==
    /\ ReverseDone
    /\ input_lines = << <<"Mail", SP, "user", "@", "example", ".", "com">> >>
    /\ q_output_lines = input_lines
    /\ transform_quarto_inline(<<"See", SP, "@", "example", ".", "com">>)
         = <<"See", SP>> \o Role(<<"cite", CO, "t">>, <<"example">>) \o <<".", "com">>

----------------------------------------------------------------------------
(* Directives the forward table does not know, and directives it removes.   *)

ForwardDone == mode = "forward" /\ pc = "scanned"

\* the input opens with the directive foo at this indentation, with this
\* fence and argument
OpensWith(ind, f, a) ==
    /\ lines # <<>>
    /\ lines[1] = DirectiveDoc(ind \o f, W_foo, a, <<>>, <<>>, <<>>)[1]

\* the body begins with a line of its own
BodyStarts(b) == b = <<>> \/ strip(b[1]) # <<>>

OptionKey(l) == OPTION_RE(l).g1

\* the option lines as a mapping keeps them: one line per key, at the place
\* of the key's first line, holding the key's last line
KeptOptions(o) ==
    LET firsts == SelectSeq([j \in 1..Len(o) |-> j],
                            LAMBDA j : \A m \in 1..(j - 1) : OptionKey(o[m]) # OptionKey(o[j]))
        last(k) == CHOOSE j \in 1..Len(o) :
                       /\ OptionKey(o[j]) = k
                       /\ \A m \in (j + 1)..Len(o) : OptionKey(o[m]) # k
    IN  [n \in 1..Len(firsts) |-> o[last(OptionKey(o[firsts[n]]))]]

InlineEach(ls) == [k \in 1..Len(ls) |-> transform_inline(ls[k])]

\* the directive ends at its closing fence; with a directive left open
\* inside it, or without a closing fence, it runs to the end of the input
RemovedEnds(body, closer) == closer # <<>> /\ body # NestedOpenNote

\* C14: a directive named bibliography, tableofcontents or abstract
\* contributes no line to the forward output, whatever its options, body
\* lines or nested directives; the lines before and after it come out as
\* they would without it.
C14_RemovedContributesNothing ==
    ForwardDone =>
        \A pre \in RemovedAround, n \in RemovedNames, b \in RemovedBodies,
           closer \in { <<>>, << Rep(BT, 4) >> }, post \in RemovedAround :
            lines = RemovedDoc(pre, n, b, closer, post)
            => output_lines =
                 InlineEach(pre)
                 \o (IF RemovedEnds(b, closer) THEN InlineEach(post) ELSE <<>>)

----------------------------------------------------------------------------
(* Table rows and their caption in the reverse conversion.                  *)

LastLines(out, n) ==
    IF n > Len(out) THEN <<>> ELSE SubSeq(out, Len(out) - n + 1, Len(out))

\* C15: whenever table rows are buffered, the buffered rows are the last
\* len(buffer) lines of the output emitted so far, so that the caption's
\* removal of len(buffer) lines takes away the buffered rows and nothing
\* else.
C15_BufferIsOutputTail ==
    (in_table /\ table_lines_buffer # <<>>)
    => LastLines(q_output_lines, Len(table_lines_buffer)) = table_lines_buffer

\* C18: while table rows are buffered, a line that is neither blank nor a
\* table row ends the buffering and discards the buffer, also when the line
\* starts another construct (executable fence, callout, tab group, margin
\* block, image line, math block).
C18_OtherLineEndsBuffering ==
    [][ ( /\ Dispatching
          /\ in_table /\ table_lines_buffer # <<>>
          /\ q_stripped # <<>> /\ ~TABLE_ROW_RE(q_stripped)
          /\ qi' = qi + 1 )
        => (~in_table' /\ table_lines_buffer' = <<>>) ]_vars

\* C19: a caption-shaped line that arrives while no table rows are buffered
\* is emitted as a plain inline-rewritten line: no table construct is
\* emitted and no earlier output line is removed.
C19_CaptionWithoutRowsIsText ==
    [][ ( /\ Dispatching
          /\ TABLE_CAPTION_RE(q_stripped).ok
          /\ table_lines_buffer = <<>>
          /\ qi' # qi )
        => ( /\ q_output_lines' = Append(q_output_lines, transform_quarto_inline(q_line))
             /\ qi' = qi + 1
             /\ pc' = pc ) ]_vars

\* @key / : See @fig-a {#tbl-x} came out as two lines of rewritten text
C19_Witness ==
    /\ ReverseDone
    /\ input_lines = << TextAt, CaptionRef >>
    /\ ~in_table
    /\ q_output_lines =
          << transform_quarto_inline(TextAt),
             <<CO, SP, "See", SP>> \o Role(<<"numref">>, <<"fig", "-", "a">>)
             \o <<SP, "{", "#", "tbl", "-", "x", "}">> >>

\* rows wrapped in a table construct that has no :name: option
WrappedUnnamed(out, rows) ==
    /\ Len(out) = Len(rows) + 3
    /\ StartsWith(out[1], Open(L3(BT), <<"table">>))
    /\ out[2] = <<>>
    /\ SubSeq(out, 3, Len(rows) + 2) = rows
    /\ out[Len(out)] = L3(BT)

\* C20: a caption line that follows buffered table rows and carries no id,
\* or an id without the tbl- prefix, still wraps the buffered rows in a
\* table construct; only the :name: option is left out.
C20_BareCaptionWraps ==
    ReverseDone =>
        \A rows \in { << TableRow >>, << TableRow, TableRule >> },
           c \in { CaptionBare, CaptionFig } :
            input_lines = rows \o << c >> => WrappedUnnamed(q_output_lines, rows)

----------------------------------------------------------------------------
(* The WarningCollector.                                                    *)

Texts(calls) == [k \in 1..Len(calls) |-> calls[k].text]

WarnStep ==
    /\ Len(reported') = Len(reported) + 1
    /\ reported'[Len(reported')].op = "warn"

\* C17: after any sequence of warn and error calls, in strict mode the
\* warnings list is empty and errors holds every reported message in call
\* order; in non-strict mode warn never changes errors; has_errors() returns
\* true exactly when errors is not empty.
C17_Collector ==
    /\ [](strict => (warnings = <<>> /\ errors = Texts(reported)))
    /\ [][(WarnStep /\ ~strict) => errors' = errors]_vars
    /\ [](has_errors_ret # "none" => (has_errors_ret = "True" <=> errors # <<>>))

\* strict: warn, error with file and line, warn; all three under errors
C17_Witness ==
    /\ strict
    /\ Len(reported) = 3
    /\ reported[1].op = "warn" /\ reported[2].op = "error" /\ reported[3].op = "warn"
    /\ errors[2] = <<"doc", ".", "md", CO, "1", "0", CO, SP, "parse", SP, "error">>
    /\ errors = Texts(reported)
    /\ warnings = <<>>
    /\ has_errors_ret = "True"

----------------------------------------------------------------------------
(* Dry runs of convert_file and convert_directory.                          *)

DryRunStep == ncalls' = ncalls + 1 /\ call'.dry_run

InputsOf(rs) == [k \in 1..Len(rs) |-> rs[k].input_path]

\* what the call c returns on the disk st when it is not a dry run
WetResults(st, c) ==
    IF c.fn = "convert_file"
    THEN << convert_file(st, c.input, c.output, c.direction, FALSE).result >>
    ELSE convert_directory(st, c.input, c.output, c.direction, c.in_place,
                           c.config_only, c.no_config, FALSE).results

\* C16: with dry_run=True, convert_file and convert_directory (directory or
\* single-file input, with or without in_place, config_only or no_config)
\* create, write and delete no file or directory, and still return a result
\* for each input that would have been converted.
C16_DryRunChangesNothing ==
    [][ DryRunStep
        => ( /\ fs' = fs
             /\ dirs' = dirs
             /\ InputsOf(results') = InputsOf(WetResults(Disk, call'))
             /\ \A k \in 1..Len(results') : results'[k].dry_run ) ]_vars

\* a dry run over the MyST project into out: three results, no out
\* directory, the project as it was
C16_Witness ==
    /\ call.fn = "convert_directory" /\ call.dry_run /\ ~call.in_place
    /\ call.input = DirPath(Proj) /\ call.output = <<"out">>
    /\ fs = myst_project
    /\ <<"out">> \notin dirs
    /\ Len(results) = 3
    /\ results[2].output_path = FilePath(<<"out">>, "intro", ".qmd")
    /\ ~isfile(Disk, results[2].output_path)

----------------------------------------------------------------------------
(* The forward scanner: options mode, closing fences, plain fences.         *)

IsOptionLine(l) == OPTION_RE(strip(l)).ok

\* the length of the run of option lines ls begins with
LeadRun(ls) ==
    IF \A k \in 1..Len(ls) : IsOptionLine(ls[k]) THEN Len(ls)
    ELSE (CHOOSE n \in 1..Len(ls) :
              /\ ~IsOptionLine(ls[n])
              /\ \A k \in 1..(n - 1) : IsOptionLine(ls[k])) - 1

\* what follows the run, without the one blank line that ends it
AfterRun(ls) ==
    LET rest == SubSeq(ls, LeadRun(ls) + 1, Len(ls))
    IN  IF rest # <<>> /\ strip(rest[1]) = <<>> THEN Tail(rest) ELSE rest

\* a step of the frame stack under a line that is neither an opening nor a
\* closing fence
C21_Step ==
    /\ \A k \in 1..Len(stack) :
          (k <= Len(stack') /\ stack'[k].options # stack[k].options)
          => ( /\ k = Len(stack) /\ Len(stack') = Len(stack)
               /\ in_options /\ in_options'
               /\ opt_match.ok
               /\ stack[k].body_lines = <<>> )
    /\ (in_options' /\ ~in_options) => Len(stack') = Len(stack) + 1
    /\ (i' = i + 1 /\ Len(stack') <= Len(stack)
        /\ ~(in_options /\ InFrame /\ opt_match.ok)) => ~in_options'
    /\ (InFrame /\ ~(in_options /\ opt_match.ok))
       => IF in_options /\ strip(content) = <<>>
          THEN stack' = stack
          ELSE stack' = [stack EXCEPT ![Len(stack)].body_lines = Append(@, content)]

\* the output for ::::{foo} / ls / :::: when ls holds option lines, blank
\* lines and text only
C21_Final ==
    ( /\ ForwardDone
      /\ Len(lines) >= 2
      /\ lines = OptRunDoc(SubSeq(lines, 2, Len(lines) - 1))
      /\ \A k \in 2..(Len(lines) - 1) : lines[k] \in OptTextAlphabet )
    => LET ls == SubSeq(lines, 2, Len(lines) - 1)
           body == AfterRun(ls)
       IN  output_lines =
             << WarningLine(W_foo) >>
             \o DirectiveDoc(Rep(CO, 4), W_foo, <<>>,
                             KeptOptions(SubSeq(ls, 1, LeadRun(ls))),
                             IF body # <<>> THEN << <<>> >> ELSE <<>>, body)

\* C21: a frame's options are recorded only from the unbroken run of
\* :key: value lines directly after its opening fence; the first line that
\* is not an option line (blank, text, or the opening of a nested directive)
\* ends options mode for that frame for good, so a later :key: value line is
\* a body line; one blank line that ends the run is dropped and any further
\* blank line is a body line.
C21_OptionsRun == [][C21_Step]_vars /\ []C21_Final

\* ::::{foo} / :k: v / blank / blank / :name: x / :::: gave the option k,
\* and the body blank, :name: x
C21_Witness ==
    /\ ForwardDone
    /\ lines = OptRunDoc(<< OptionKV, <<>>, <<>>, OptLine(K_name, <<"x">>) >>)
    /\ output_lines = << WarningLine(W_foo), Open(Rep(CO, 4), W_foo), OptionKV, <<>>,
                         <<>>, OptLine(K_name, <<"x">>), Rep(CO, 4) >>

ClosesLower == \E k \in 1..(Len(stack) - 1) : is_close_fence(stripped, indent, stack[k])

LowerKept(n) == \A k \in 1..n : stack'[k] = stack[k]

\* C22: a closing-fence line pops at most one frame, the top of the stack; a
\* line that meets the close condition of a lower frame but not of the top
\* frame pops nothing and is option or body content of the top frame; a
\* line that meets both closes the top frame only.
C22_ClosesTopOnly ==
    [][ (Scanning /\ i' = i + 1)
        => ( /\ Len(stack') >= Len(stack) - 1
             /\ Len(stack') = Len(stack) - 1
                => ( /\ is_close_fence(stripped, indent, current)
                     /\ LowerKept(Len(stack) - 2)
                     /\ Len(stack) >= 2
                        => stack'[Len(stack')] =
                             [stack[Len(stack) - 1] EXCEPT
                                 !.body_lines = @ \o transform_fn(current)] )
             /\ (stack # <<>> /\ ClosesLower /\ ~OpensDirective)
                => IF is_close_fence(stripped, indent, current)
                   THEN Len(stack') = Len(stack) - 1
                   ELSE /\ Len(stack') = Len(stack)
                        /\ LowerKept(Len(stack) - 1)
                        /\ stack'[Len(stack)].body_lines
                             = Append(current.body_lines, content)
                        /\ stack'[Len(stack)].options = current.options ) ]_vars

\* :::{tip} / ```{note} / ::: : the line that would close the tip is the
\* first body line of the note, and both frames are open
C22_Witness ==
    /\ pc = "scan"
    /\ Len(stack) = 2
    /\ stack[1].name = W_tip /\ stack[1].body_lines = <<>>
    /\ stack[2].name = W_note /\ stack[2].body_lines = << L3(CO) >>

OutsideAll ==
    /\ stack = <<>>
    /\ ~in_regular_code_fence
    /\ ~OpensDirective
    /\ ~regular_fence_m.ok

\* what one scanned line does to the output and to the frames
C23_Step ==
    (Scanning /\ i' = i + 1)
    => IF OutsideAll
       THEN /\ output_lines' = Append(output_lines, transform_inline(line))
            /\ stack' = stack
       ELSE /\ (stack = <<>> /\ ~OpensDirective)
               => /\ output_lines' = Append(output_lines, line)
                  /\ stack' = stack
            /\ OpensDirective
               => /\ output_lines' = output_lines
                  /\ Len(stack') = Len(stack) + 1
                  /\ LowerKept(Len(stack))
                  /\ stack'[Len(stack')].body_lines = <<>>
            /\ InFrame
               => /\ output_lines' = output_lines
                  /\ LowerKept(Len(stack) - 1)
                  /\ stack'[Len(stack)].body_lines
                       \in { current.body_lines,
                             Append(current.body_lines,
                                    strip_indent(line, current.indent)) }
            /\ (stack # <<>> /\ ~OpensDirective /\ ~InFrame)
               => LET block == transform_directive(current)
                  IN  IF Len(stack) = 1
                      THEN output_lines' = output_lines \o block /\ stack' = <<>>
                      ELSE /\ output_lines' = output_lines
                           /\ stack'[Len(stack')].body_lines
                                = stack[Len(stack) - 1].body_lines \o block

NoteWithCite(f) == << Open(f, W_note), TextCite, f >>

\* a citation alone is rewritten; the same citation as the body of a note
\* or between the lines of a plain code fence is not
C23_Final ==
    ForwardDone
    => /\ lines = << TextCite >>
          => output_lines = << transform_inline(TextCite) >>
       /\ lines = NoteWithCite(L3(BT))
          => output_lines = << CalloutOpen(W_note), TextCite, L3(CO) >>
       /\ lines = << L3(BT), TextCite, L3(BT) >>
          => output_lines = lines

\* C23: the inline rewriter is applied to exactly the lines outside every
\* directive frame and outside every plain code fence; a body line is handed
\* to the block transform with only its indentation stripped, so an inline
\* role inside a directive body reaches the output unrewritten.
C23_InlineOutsideOnly == [][C23_Step]_vars /\ []C23_Final

\* ```{note} / See {cite}`k` / ``` converted: the output holds the role as written
C23_Witness ==
    /\ ForwardDone
    /\ lines = NoteWithCite(L3(BT))
    /\ output_lines[2] = TextCite
    /\ transform_inline(TextCite) # TextCite

\* C24: a line ![alt](url){attrs} goes to the figure builder exactly when
\* the attributes hold an id starting with fig-, to the image builder
\* exactly when they hold a width and no such id, and is otherwise emitted
\* as one inline-rewritten line.
C24_ImageRouting ==
    ReverseDone =>
        \A alt \in ImgAlts, id \in ImgIds, w \in ImgWidths :
            input_lines = << ImgLine(alt, id, w) >>
            => q_output_lines =
                 IF StartsWith(id, <<"fig", "-">>)
                 THEN build_figure_directive(alt, ImgUrl, [id |-> id, width |-> w])
                 ELSE IF w # <<>>
                 THEN build_image_directive(alt, ImgUrl, [id |-> id, width |-> w])
                 ELSE << transform_quarto_inline(ImgLine(alt, id, w)) >>

\* C25: a $$ block whose closer carries {#label} comes out as a math
\* directive with :label: label and the same body lines; a $$ block without
\* a labelled closer comes out as exactly its input lines, with a closing
\* $$ only if the input had one.
C25_MathBlockLines ==
    ReverseDone =>
        \A b \in SeqsUpTo(MathRevBodyAlphabet, MaxBody), closer \in MathClosers :
            input_lines = MathRevDoc(b, closer)
            => q_output_lines =
                 IF closer # <<>> /\ closer[1] # MathMark
                 THEN << Open(L3(BT), <<"math">>), OptLine(K_label, <<"eq", "-", "e">>),
                         <<>> >> \o b \o << L3(BT) >>
                 ELSE input_lines

\* the tags of the pairs of a run, in the order of the run
RunTags(run) ==
    LET hits == SelectSeq(run, LAMBDA o : o \in { O_include, O_echo, O_output, O_fold })
    IN  [k \in 1..Len(hits) |->
            CASE hits[k] = O_include -> T_remove_cell
              [] hits[k] = O_echo -> T_remove_input
              [] hits[k] = O_output -> T_remove_output
              [] hits[k] = O_fold -> T_hide_input]

HasCap(run) == \E k \in 1..Len(run) : run[k][1] = <<"fig", "-", "cap">>

Deleted(f) == ~isfile([fs |-> fs', dirs |-> dirs'], Path(f))

\* the results of the call that name f as their input
ResultsFor(f) == { k \in 1..Len(results') : results'[k].input_path = Path(f) }

\* C27: convert_directory with in_place and without dry_run deletes a source
\* file only after its converted output was written to another path and
\* its conversion reported no error; a file whose read or write failed is
\* never deleted.
C27_DeleteAfterWrite ==
    [][ (/\ ncalls' = ncalls + 1
         /\ call'.fn = "convert_directory"
         /\ call'.in_place /\ ~call'.dry_run)
        => \A f \in fs :
                /\ Deleted(f)
                   => \E k \in ResultsFor(f) :
                        /\ results'[k].errors = <<>>
                        /\ results'[k].output_path # Path(f)
                        /\ File(results'[k].output_path,
                                Converted(call'.direction, f.content)) \in fs'
                /\ (\E k \in ResultsFor(f) : results'[k].errors # <<>>)
                   => f \in fs' ]_vars

\* the locked project converted in place: a.md is replaced by a.qmd, the
\* unreadable intro.md and the x.md whose output could not be written stay
C27_Witness ==
    /\ call.fn = "convert_directory"
    /\ call.in_place /\ ~call.dry_run /\ ~call.config_only
    /\ ~isfile(Disk, FilePath(Proj, "a", ".md"))
    /\ File(FilePath(Proj, "a", ".qmd"), Converted(MYST_TO_QUARTO, MystText)) \in fs
    /\ File(FilePath(Proj, "intro", ".md"), Denied) \in fs
    /\ File(FilePath(Proj \o <<"sub">>, "x", ".md"), MystText) \in fs
    /\ \E k \in 1..Len(results) : results[k].errors = <<"Could not write">>

C28_Exclusive == ~(in_regular_code_fence /\ stack # <<>>)

C28_Step ==
    /\ (~in_regular_code_fence /\ in_regular_code_fence')
       => (stack = <<>> /\ stack' = <<>>)
    /\ Len(stack') > Len(stack)
       => (~in_regular_code_fence /\ ~in_regular_code_fence')
    /\ (Scanning /\ i' = i + 1 /\ stack # <<>> /\ regular_fence_m.ok)
       => /\ ~in_regular_code_fence'
          /\ IF is_close_fence(stripped, indent, current)
             THEN Len(stack') = Len(stack) - 1
             ELSE /\ output_lines' = output_lines
                  /\ stack' = [stack EXCEPT
                                  ![Len(stack)].body_lines = Append(@, content)]

\* C28: being inside a plain code fence and having an open directive frame
\* exclude each other; plain-fence mode is entered only with the stack
\* empty, no frame is pushed in plain-fence mode, and a plain-fence-shaped
\* line met while a frame is open is body or closing fence of the top frame.
C28_FenceOrFrame == []C28_Exclusive /\ [][C28_Step]_vars

\* ```{note} / ```python : the plain-fence line is the first body line of
\* the open note
C28_Witness ==
    /\ pc = "scan"
    /\ Len(stack) = 1
    /\ stack[1].name = W_note
    /\ stack[1].body_lines = << L3(BT) \o <<"python">> >>
    /\ ~in_regular_code_fence

SameOutput ==
    \A j \in 1..Len(returned), k \in 1..Len(returned) :
        returned[j].text = returned[k].text => returned[j].out = returned[k].out

\* C29: scan returns with the frame stack empty for every text, also one
\* that leaves directives open, and its flags belong to one call: a text
\* gives the same output whether it is scanned first or after other
\* texts, on a new Scanner or on one that has scanned before.
C29_ScansIndependent ==
    /\ pc = "scanned" => stack = <<>>
    /\ SameOutput

\* a citation scanned, then a text that ends inside a plain code fence, then
\* the citation again: rewritten both times
C29_Witness ==
    /\ Len(returned) = 3
    /\ returned[1] = [text |-> << TextCite >>, out |-> << transform_inline(TextCite) >>]
    /\ returned[2].text = << L3(BT) \o <<"python">>, TextCite >>
    /\ returned[3] = returned[1]

IsTabHeading(l) == \E lab \in TabLabels : l = TabHeading(lab)

\* the first heading of b after line k, Len(b) + 1 when there is none
NextHeading(b, k) ==
    LET hs == { j \in (k + 1)..Len(b) : IsTabHeading(b[j]) }
    IN  IF hs = {} THEN Len(b) + 1 ELSE CHOOSE j \in hs : \A h \in hs : j <= h

\* ls without the blank lines at its end
Trimmed(ls) ==
    LET nb == { k \in 1..Len(ls) : strip(ls[k]) # <<>> }
    IN  IF nb = {} THEN <<>>
        ELSE SubSeq(ls, 1, CHOOSE k \in nb : \A n \in nb : n <= k)

\* one tab-item for each heading of b from line k on
RECURSIVE ItemsFrom(_, _)
ItemsFrom(b0, k0) ==
    CHOOSE out_ \in {
       (IF NextHeading(b, k) > Len(b) THEN <<>>
        ELSE LET h == NextHeading(b, k)
                 n == NextHeading(b, h)
             IN  << L3(CO) \o <<"{", "tab", "-", "item", "}", SP>>
                      \o SubSeq(b[h], 4, Len(b[h])) >>
                 \o Trimmed(SubSeq(b, h + 1, n - 1)) \o << L3(CO) >>
                 \o ItemsFrom(b, h))
        : b \in {b0}, k \in {k0} } : TRUE

\* C30: in a panel-tabset block each ## label line opens one tab-item; every
\* body line after the first heading is emitted inside exactly one
\* tab-item, in order, except the blank lines at the end of each tab; the
\* body lines before the first heading, and all body lines of a tabset
\* without a heading, are not emitted.
C30_TabItems ==
    ReverseDone =>
        \A b \in SeqsUpTo(TabAlphabet, MaxTab) :
            input_lines = TabsetDoc(b)
            => q_output_lines =
                 << Rep(CO, 4) \o <<"{", "tab", "-", "set", "}">> >>
                 \o ItemsFrom(b, 0) \o << Rep(CO, 4) >>

\* ::: {.panel-tabset} / @key / ## Tab / @key / (blank) / ::: converted: the
\* line before the heading and the blank line at the end are gone
C30_Witness ==
    /\ ReverseDone
    /\ input_lines = TabsetDoc(<< TextAt, TabHeading(<<"Tab">>), TextAt, <<>> >>)
    /\ q_output_lines =
         << Rep(CO, 4) \o <<"{", "tab", "-", "set", "}">>,
            L3(CO) \o <<"{", "tab", "-", "item", "}", SP, "Tab">>,
            TextAt, L3(CO), Rep(CO, 4) >>

====
